---- MODULE Spec2Model ----
(***************************************************************************)
(* Incremental synchronisation and idempotent load engine of zendesk_etl.  *)
(*                                                                         *)
(* Part 1 (specification Spec): the checkpointed batch upserters           *)
(*   load_parquet_incremental, load_parquet_to_postgres (etl/load.py) and  *)
(*   load_csv_to_postgres (utils/db_utils.py), run batch by batch against  *)
(*   one table and one load-watermark file.                                *)
(* Part 2 (specification SpecFetch): the paginated incremental fetchers    *)
(*   extract_incremental_endpoint (etl/extract.py) and                     *)
(*   extract_zendesk_data (process_tickets/extract.py, main.py).           *)
(* SpecScenario and SpecTwice run the loaders of Part 1 on scripted        *)
(*   sequences of input files and watermarks.                              *)
(***************************************************************************)
EXTENDS Integers, Sequences, FiniteSets, TLC

VARIABLES
    \* ---- table store and watermark files (durable) ----
    cfg,                \* the loader call site that owns the table
    tableExists,        \* information_schema says the table exists
    table,              \* committed rows of the table
    loadWm,             \* last_load_timestamp_<table>.txt (0: no file)
    now,                \* wall clock, in seconds
    \* ---- locals of the load run in progress ----
    pc,                 \* "idle" | "loop" | "done" | "failed"
    file,               \* the rows of the input file, in file order
    incremental,        \* the incremental flag of this run
    start_idx,          \* rows of the file already consumed by the batch loop
    last_load_ts,
    max_updated_at,
    total_rows,
    current_timestamp,  \* datetime.now() taken once per run: the _loaded_at value
    \* ---- history of the load runs (not program state) ----
    t0,                 \* rows of the table when the run started
    wm0,                \* loadWm when the run started
    crashed,            \* the run before this one failed: its file, mode and t0
    plan,               \* the inputs of a scripted sequence of runs (<<>>: none)
    has_updated_at,     \* the input files have the column named updated_at_column
    \* ---- extraction runs and the paginated fetcher ----
    fetcher,            \* which fetch loop the extraction script uses
    syncWm,             \* the sync timestamp file (0: no file)
    outfile,            \* <<>>, or <<f>>: the output file this extraction run wrote
    xruns,              \* extraction runs started so far
    fpc,                \* "idle" | "loop" | "returned" | "raised" | "saved" | "noop"
    url,                \* <<>>: None; <<s>>: a URL whose start_time parameter is s
    all_records,
    final_end_time,     \* None or the end_time the fetch returns
    stop_time,          \* target_stop_timestamp (extract_zendesk_data only)
    slept,              \* seconds passed in time.sleep inside the fetch loop
    lastAnswer,         \* what the last loop iteration met
    retries,            \* 429 answers met in a row for the current URL
    requests,           \* requests issued by this fetch
    pages,              \* 200 answers received by this fetch
    limited,            \* 429 answers received by this fetch
    log,                \* the requests this fetch issued, in order, with their answers
    lastPage,           \* <<>>, or <<data>>: the body of the last 200 answer
    \* ---- the transform stage ----
    df,                 \* <<>>, or <<d>>: the DataFrame handed to deduplicate_dataframe
    deduped,            \* <<>>, or <<r>>: what deduplicate_dataframe returned
    transform_of,       \* <<>>, or <<r>>: the resource whose transform script runs
    input_dir,          \* the names of the files in the input directory of the script
    file_name,          \* <<>>, or <<n>>: the file the script has chosen to read
    tpc,                \* "idle" | "start" | "found" | "exit1" | "done"
    exported,           \* <<>>, or <<f>>: the records of the file the script wrote
    \* ---- schema inference ----
    schema_in,          \* <<>>, or <<c>>: the DataFrame column handed to infer_schema
    schema_out,         \* <<>>, or <<r>>: what infer_schema returned for it
    \* ---- the columns of the table ----
    table_columns,      \* the columns of the table: a set of [name, pg_type]
    df_columns,         \* the columns of df_sample, in order: [name, dtype]
    evolved,            \* <<>>, or <<e>>: the schema step was taken; e.before are the
                        \* columns the table had, e.failing the ALTERs the store refused
    \* ---- the orchestrator ----
    run_flags,          \* run_extract, run_transform, run_load of the flow run
    task_state,         \* per task of the flow: what became of its call
    flow_state,         \* "idle" | "running" | "completed" | "failed"
    next_task,          \* position of the flow in its sequence of task calls
    running,            \* <<>>, or <<t>>: the task whose subprocess is running
    started             \* the tasks whose subprocess was started, in order

loadVars == <<cfg, tableExists, table, loadWm, now, pc, file, incremental, start_idx,
              last_load_ts, max_updated_at, total_rows, current_timestamp,
              t0, wm0, crashed, plan, has_updated_at>>
fetchVars == <<fetcher, syncWm, outfile, xruns, fpc, url, all_records, final_end_time, stop_time, slept,
               lastAnswer, retries, requests, pages, limited, log, lastPage>>
transformVars == <<df, deduped, transform_of, input_dir, file_name, tpc, exported>>
schemaVars == <<schema_in, schema_out>>
evolveVars == <<table_columns, df_columns, evolved>>
dagVars == <<run_flags, task_state, flow_state, next_task, running, started>>
\* what the load runs and the extraction runs never touch
sideVars == <<transformVars, schemaVars, evolveVars, dagVars>>
vars == <<loadVars, fetchVars, sideVars>>

----------------------------------------------------------------------------
(* Bounds of the model *)

\* largest epoch second an updated_at string parses to
MaxTs == 2
\* most rows in an input file
MaxLen == 2
\* rows per batch (batch_size, 10000 in the code, scaled to the file sizes)
BatchSize == 1

\* the wall-clock readings of the load runs (a run reads the clock once)
Ticks == {1, 2}

\* entity identities
Ids == {1, 2}

\* Python's None, as the result of parse_iso_timestamp
None == -1

----------------------------------------------------------------------------
(* Rows and timestamps *)

\* The updated_at cell of an input row: "none" is a cell parse_iso_timestamp gives
\* None for (null, NaN, the empty string, a string that is no ISO timestamp);
\* "iso" is an ISO timestamp string, in any accepted spelling, of epoch second e.
Stamps == {[k |-> "none", e |-> 0]} \cup {[k |-> "iso", e |-> n] : n \in 0..MaxTs}

InputRows == [id : Ids, updated_at : Stamps]

RECURSIVE SeqsUpTo(_, _)
SeqsUpTo(S, n) ==
    IF n = 0 THEN {<<>>}
    ELSE LET shorter == SeqsUpTo(S, n - 1)
         IN  shorter \cup {Append(s, x) : s \in {q \in shorter : Len(q) = n - 1}, x \in S}

Files == SeqsUpTo(InputRows, MaxLen)

\* a row of a file that has no updated_at column has no such cell
Absent == [k |-> "absent", e |-> 0]

\* the input files without the updated_at column
BareFiles == SeqsUpTo([id : Ids, updated_at : {Absent}], MaxLen)

\* the input files of either shape
FilesOfShape(has) == IF has THEN Files ELSE BareFiles

parse_iso_timestamp(ts_str) ==
    IF ts_str.k = "iso" THEN ts_str.e     \* int(dt.timestamp())
    ELSE None                             \* pd.isna / not ts_str / except ValueError

Min(a, b) == IF a < b THEN a ELSE b

SeqToSet(s) == {s[i] : i \in 1..Len(s)}

SetMax(S) == CHOOSE m \in S : \A x \in S : x <= m

----------------------------------------------------------------------------
(* Loader call sites *)

PI  == "load_parquet_incremental"
PP  == "load_parquet_to_postgres"
CSV == "load_csv_to_postgres"

\* etl/users/load.py: primary_key=["user_id", "_loaded_at"], if_exists="replace"
UsersLoad == [fn |-> PP, pk |-> "id_loaded_at", if_exists |-> "replace"]
\* etl/tickets/load.py: primary_key="ticket_id", if_exists="replace"
TicketsLoad == [fn |-> CSV, pk |-> "id", if_exists |-> "replace"]
\* load_parquet_incremental / load_json_incremental keyed by the id
IncrementalLoad == [fn |-> PI, pk |-> "id", if_exists |-> "append"]
\* load_parquet_to_postgres / load_json_to_postgres keyed by the id
ParquetLoad == [fn |-> PP, pk |-> "id", if_exists |-> "replace"]

CallSites == {UsersLoad, TicketsLoad, IncrementalLoad, ParquetLoad}

----------------------------------------------------------------------------
(* The table store *)

\* the primary key value of a table row
KeyOf(r, pk) == IF pk = "id" THEN <<r.id>> ELSE <<r.id, r._loaded_at>>

Keys(rows, pk) == {KeyOf(r, pk) : r \in rows}


\* an insert that leaves the row of a key already in the table as it is
InsertDoNothing(T, rows, pk) ==
    T \cup {r \in rows : KeyOf(r, pk) \notin Keys(T, pk)}

\* an upsert that replaces the row of a key only by a row updated later
UpsertIfNewer(T, rows, pk) ==
    LET stale == {r \in rows : \E t \in T :
                     /\ KeyOf(t, pk) = KeyOf(r, pk)
                     /\ parse_iso_timestamp(t.updated_at)
                            >= parse_iso_timestamp(r.updated_at)}
    IN  {t \in T : KeyOf(t, pk) \notin Keys(rows \ stale, pk)} \cup (rows \ stale)

\* INSERT ... VALUES %s ON CONFLICT (pk) DO UPDATE SET col = EXCLUDED.col for every
\* non-key column: a row whose key is in the table replaces the row of that key.
Upsert(T, rows, pk) ==
    {r \in T : KeyOf(r, pk) \notin Keys(rows, pk)} \cup rows

\* PostgreSQL refuses an ON CONFLICT DO UPDATE statement that would touch one
\* row twice (two rows of the VALUES list with the same key).
StatementOk(values, pk) ==
    \A i, j \in 1..Len(values) : KeyOf(values[i], pk) = KeyOf(values[j], pk) => i = j

----------------------------------------------------------------------------
(* Steps of a load run *)

\* parquet_file.iloc[start_idx:end_idx] / the next chunk of pd.read_csv
Chunk(f, s) == SubSeq(f, s + 1, Min(s + BatchSize, Len(f)))

\* load_parquet_incremental is the incremental mode by construction
Modes(c) == IF c.fn = PI THEN {TRUE} ELSE BOOLEAN

\* The table row of input row r: chunk['_loaded_at'] = current_timestamp in the
\* parquet loaders; load_csv_to_postgres adds no such column.
Stamp(r, c, loaded_at) ==
    [id |-> r.id, updated_at |-> r.updated_at,
     _loaded_at |-> IF c.fn = CSV THEN None ELSE loaded_at]

\* whether the run parses updated_at at all: the column is in the file, and
\* load_csv_to_postgres looks at it in incremental mode only
Parses(c, inc) == has_updated_at /\ (c.fn = PI \/ c.fn = PP \/ (c.fn = CSV /\ inc))

\* a filter that also keeps the rows stamped exactly at the watermark
KeepFromWatermark(r, c, inc, last) ==
    IF Parses(c, inc) /\ inc /\ last > 0
    THEN LET parsed == parse_iso_timestamp(r.updated_at)
         IN  parsed = None \/ parsed >= last
    ELSE TRUE

\* mask = (parsed > last_load_ts) | parsed.isna(), applied only when last_load_ts > 0
Keep(r, c, inc, last) ==
    IF Parses(c, inc) /\ inc /\ last > 0
    THEN LET parsed == parse_iso_timestamp(r.updated_at)
         IN  parsed = None \/ parsed > last
    ELSE TRUE

\* the chunk after the filter
Filtered(f, s, c, inc, last) == SelectSeq(Chunk(f, s), LAMBDA r : Keep(r, c, inc, last))

\* the VALUES list of the batch statement
Values(f, s, c, inc, last, loaded_at) ==
    LET kept == Filtered(f, s, c, inc, last)
    IN  [i \in 1..Len(kept) |-> Stamp(kept[i], c, loaded_at)]

\* valid_timestamps = chunk['_parsed_updated_at'].dropna() of the filtered chunk
ValidTimestamps(kept) ==
    {parse_iso_timestamp(kept[i].updated_at) : i \in 1..Len(kept)} \ {None}

\* a tracker that takes the maximum of the latest chunk without comparing
TrackLastChunk(kept, c, inc, max) ==
    IF Parses(c, inc) /\ ValidTimestamps(kept) # {}
    THEN SetMax(ValidTimestamps(kept))
    ELSE max

\* "Track max updated_at": if chunk_max > max_updated_at: max_updated_at = chunk_max
TrackMax(kept, c, inc, max) ==
    IF Parses(c, inc) /\ ValidTimestamps(kept) # {} /\ SetMax(ValidTimestamps(kept)) > max
    THEN SetMax(ValidTimestamps(kept))
    ELSE max

\* a schema step that never empties a table that exists
SchemaStepKeepsRows(T, exists, c, inc) == IF ~exists THEN {} ELSE T

\* The schema step before the batch loop: the rows of the table after it.
\*   load_parquet_incremental: CREATE TABLE if absent, else add_missing_columns.
\*   load_parquet_to_postgres: create_table_from_df(.., if_exists) and TRUNCATE only
\*     when replacing outside the incremental mode.
\*   load_csv_to_postgres: create_table_from_df(.., if_exists) whenever if_exists is
\*     "replace", which drops a table that exists; TRUNCATE as above.
AfterSchemaStep(T, exists, c, inc) ==
    IF ~exists THEN {}
    ELSE IF c.fn = PI THEN T
    ELSE IF c.fn = PP THEN (IF c.if_exists = "replace" /\ ~inc THEN {} ELSE T)
    ELSE (IF c.if_exists = "replace" THEN {} ELSE T)

\* a policy that saves the wall clock whenever rows were loaded
SaveWallClock(c, inc, total, max, last, current_ts, wm) ==
    IF total > 0 THEN current_ts ELSE wm

\* the value the run leaves in the load watermark file
SaveWatermark(c, inc, total, max, last, current_ts, wm) ==
    IF c.fn = PI THEN
        IF total > 0 THEN (IF max > last THEN max ELSE current_ts)
        ELSE IF last = 0 THEN current_ts
        ELSE wm
    ELSE IF c.fn = PP THEN
        IF total > 0 THEN (IF max > last THEN max
                           ELSE IF ~inc THEN current_ts
                           ELSE wm)
        ELSE wm
    ELSE
        IF inc /\ max > last THEN max ELSE wm

\* a rollback that keeps the statement that failed
RollbackKeepsPending(committed, pending) == pending

\* except Exception: conn.rollback(); raise  -- the statement that failed leaves
\* nothing behind; what earlier batches committed stays
Rollback(committed, pending) == committed

\* The table after the batch loop, started on table T, has gone without a failure
\* through the first s rows of file f (s a batch boundary or Len(f)).
RECURSIVE AfterBatches(_, _, _, _, _, _, _)
AfterBatches(T, f, c, inc, last, loaded_at, s) ==
    IF s <= 0 THEN T
    ELSE LET b == ((s - 1) \div BatchSize) * BatchSize
             before == AfterBatches(T, f, c, inc, last, loaded_at, b)
             values == Values(f, b, c, inc, last, loaded_at)
         IN  IF values = <<>> THEN before
             ELSE Upsert(before, SeqToSet(values), c.pk)

----------------------------------------------------------------------------
(* Load runs *)

NoCrash == <<>>

\* the locals of a load run before any run: the table T, the watermark file
\* holding wm (0: no file)
LoadLocals(T, wm) ==
    /\ tableExists = (T # {})
    /\ table = T
    /\ loadWm = wm
    /\ now = 0
    /\ pc = "idle"
    /\ file = <<>>
    /\ incremental = TRUE
    /\ start_idx = 0
    /\ last_load_ts = 0
    /\ max_updated_at = 0
    /\ total_rows = 0
    /\ current_timestamp = 0
    /\ t0 = {}
    /\ wm0 = 0
    /\ crashed = NoCrash

\* before any run, with input files that have the updated_at column
LoadStart(T, wm) ==
    /\ has_updated_at = TRUE
    /\ LoadLocals(T, wm)

LoadInit ==
    /\ cfg \in CallSites
    /\ plan = <<>>
    /\ LoadStart({}, 0)

\* a run that takes its starting point from the timestamp file of the extraction
ReadsSyncTimestamp(inc) == IF inc THEN syncWm ELSE 0

\* last_load_ts = load_last_load_timestamp(table_name, config_dir) if incremental
\* else 0: the content of last_load_timestamp_<table>.txt, 0 when it is absent
last_load_timestamp(inc) == IF inc THEN loadWm ELSE 0

\* Entry of the loader up to the batch loop, for input file f in mode inc at
\* clock reading tick: table_exists, the schema step, load_last_load_timestamp,
\* current_timestamp = datetime.now().  A run takes one reading of the clock:
\* the later reading int(datetime.now().timestamp()) of the watermark policy is
\* taken to fall in the same second.
Enter(f, inc, tick) ==
    /\ now' = tick
    /\ current_timestamp' = tick
    /\ file' = f
    /\ incremental' = inc
    /\ t0' = table
    /\ wm0' = loadWm
    /\ table' = AfterSchemaStep(table, tableExists, cfg, inc)
    /\ tableExists' = TRUE
    /\ last_load_ts' = last_load_timestamp(inc)
    /\ max_updated_at' = last_load_timestamp(inc)
    /\ crashed' = IF pc = "failed" THEN <<[crashed[1] EXCEPT !.rerun = TRUE]>>
                  ELSE NoCrash
    /\ total_rows' = 0
    /\ start_idx' = 0
    /\ pc' = "loop"
    /\ UNCHANGED <<cfg, has_updated_at, loadWm>>
    /\ UNCHANGED <<fetchVars, sideVars>>

\* A load script starts on some input file.  After a run that raised, the script
\* is run again on the same input file in the same mode.
StartRun ==
    /\ pc \in {"idle", "failed"}
    /\ cfg.fn = PI => has_updated_at
    /\ \E f \in FilesOfShape(has_updated_at), inc \in Modes(cfg),
          tick \in {t \in Ticks : t > now} :
          /\ pc = "failed" => (f = file /\ inc = incremental)
          /\ Enter(f, inc, tick)
    /\ UNCHANGED plan

\* load_parquet_incremental on a file without the updated_at column: after
\* table_exists and pd.read_parquet it raises ValueError, which the handler
\* answers with conn.rollback() and re-raises.  Nothing was written.
ShapeError ==
    /\ pc \in {"idle", "failed"}
    /\ cfg.fn = PI
    /\ ~has_updated_at
    /\ \E f \in FilesOfShape(has_updated_at), tick \in {t \in Ticks : t > now} :
          /\ pc = "failed" => f = file
          /\ now' = tick
          /\ file' = f
          /\ crashed' = IF pc = "failed"
                        THEN <<[crashed[1] EXCEPT !.rerun = FALSE]>>
                        ELSE <<[file |-> f, incremental |-> TRUE, t0 |-> table,
                                partial |-> FALSE, rerun |-> FALSE]>>
    /\ pc' = "failed"
    /\ incremental' = TRUE
    /\ t0' = table
    /\ wm0' = loadWm
    /\ start_idx' = 0
    /\ last_load_ts' = 0
    /\ max_updated_at' = 0
    /\ total_rows' = 0
    /\ current_timestamp' = 0
    /\ UNCHANGED <<cfg, has_updated_at, tableExists, table, loadWm, plan>>
    /\ UNCHANGED <<fetchVars, sideVars>>

\* One pass of the batch loop whose filtered chunk is empty: continue.
SkipBatch ==
    /\ pc = "loop"
    /\ start_idx < Len(file)
    /\ Filtered(file, start_idx, cfg, incremental, last_load_ts) = <<>>
    /\ start_idx' = Min(start_idx + BatchSize, Len(file))
    /\ UNCHANGED <<cfg, has_updated_at, tableExists, table, loadWm, now, pc, file, incremental,
                   last_load_ts, max_updated_at, total_rows, current_timestamp,
                   t0, wm0, crashed, plan>>
    /\ UNCHANGED <<fetchVars, sideVars>>

\* One pass of the batch loop: filter, track the maximum, execute_values, commit.
InsertBatch ==
    /\ pc = "loop"
    /\ start_idx < Len(file)
    /\ LET kept == Filtered(file, start_idx, cfg, incremental, last_load_ts)
           values == Values(file, start_idx, cfg, incremental, last_load_ts,
                            current_timestamp)
       IN  /\ kept # <<>>
           /\ StatementOk(values, cfg.pk)
           /\ max_updated_at' = TrackMax(kept, cfg, incremental, max_updated_at)
           /\ table' = Upsert(table, SeqToSet(values), cfg.pk)
           /\ total_rows' = total_rows + Len(kept)
    /\ start_idx' = Min(start_idx + BatchSize, Len(file))
    /\ UNCHANGED <<cfg, has_updated_at, tableExists, loadWm, now, pc, file, incremental,
                   last_load_ts, current_timestamp, t0, wm0, crashed, plan>>
    /\ UNCHANGED <<fetchVars, sideVars>>

\* One pass of the batch loop in which execute_values raises (the store refuses
\* the statement, or fails for a reason of its own): rollback, re-raise.
BatchFail ==
    /\ pc = "loop"
    /\ start_idx < Len(file)
    /\ LET kept == Filtered(file, start_idx, cfg, incremental, last_load_ts)
           values == Values(file, start_idx, cfg, incremental, last_load_ts,
                            current_timestamp)
       IN  /\ kept # <<>>
           /\ max_updated_at' = TrackMax(kept, cfg, incremental, max_updated_at)
           /\ table' = Rollback(table, Upsert(table, SeqToSet(values), cfg.pk))
    /\ pc' = "failed"
    /\ crashed' = IF crashed # NoCrash /\ crashed[1].rerun
                  THEN <<[crashed[1] EXCEPT !.rerun = FALSE]>>
                  ELSE <<[file |-> file, incremental |-> incremental, t0 |-> t0,
                          partial |-> total_rows > 0, rerun |-> FALSE]>>
    /\ UNCHANGED <<cfg, has_updated_at, tableExists, loadWm, now, file, incremental, start_idx,
                   last_load_ts, total_rows, current_timestamp, t0, wm0, plan>>
    /\ UNCHANGED <<fetchVars, sideVars>>

\* After the loop: the watermark policy, then return total_rows.
FinishRun ==
    /\ pc = "loop"
    /\ start_idx >= Len(file)
    /\ loadWm' = SaveWatermark(cfg, incremental, total_rows, max_updated_at,
                               last_load_ts, current_timestamp, loadWm)
    /\ pc' = "done"
    /\ UNCHANGED <<cfg, has_updated_at, tableExists, table, now, file, incremental, start_idx,
                   last_load_ts, max_updated_at, total_rows, current_timestamp,
                   t0, wm0, crashed, plan>>
    /\ UNCHANGED <<fetchVars, sideVars>>

\* The process ends: the locals of the run are gone, the table and the
\* watermark file stay.
Return ==
    /\ pc \in {"done", "failed"}
    /\ pc' = "idle"
    /\ file' = <<>>
    /\ incremental' = TRUE
    /\ start_idx' = 0
    /\ last_load_ts' = 0
    /\ max_updated_at' = 0
    /\ total_rows' = 0
    /\ current_timestamp' = 0
    /\ t0' = {}
    /\ wm0' = 0
    /\ crashed' = NoCrash
    /\ UNCHANGED <<cfg, has_updated_at, tableExists, table, loadWm, now, plan>>
    /\ UNCHANGED <<fetchVars, sideVars>>

LoadNext ==
    \/ StartRun
    \/ SkipBatch
    \/ InsertBatch
    \/ BatchFail
    \/ FinishRun
    \/ Return

\* Load runs on files without the updated_at column: no chunk is ever filtered,
\* so no pass of the batch loop is skipped.
ShapeInit ==
    /\ cfg \in CallSites
    /\ plan = <<>>
    /\ has_updated_at = FALSE
    /\ LoadLocals({}, 0)

ShapeNext ==
    \/ StartRun
    \/ ShapeError
    \/ InsertBatch
    \/ BatchFail
    \/ FinishRun
    \/ Return

----------------------------------------------------------------------------
(* The paginated incremental fetchers *)

\* extraction runs per behaviour
MaxExtractions == 2
\* 200 answers per fetch
MaxPages == 2
\* 429 answers per fetch
MaxRateLimited == 2

\* int(response.headers.get('Retry-After', 60))
DefaultRetryAfter == 60
\* time.sleep(1) between pages
PacingDelay == 1

EIE == "extract_incremental_endpoint"
EZD == "extract_zendesk_data"

\* the Retry-After header of a 429 answer: <<>> when the header is absent
RetryAfterHeaders == {<<>>, <<2>>}

\* a retry that does not wait
NoWait(header) == 0

retry_after(header) == IF header = <<>> THEN DefaultRetryAfter ELSE header[1]

\* A URL is the start_time parameter it carries; None is <<>>.
NoUrl == <<>>
\* the next_page cursors: one at the target of StopTimes, one beyond it
NextPageUrls == {<<2>>, <<3>>}

\* the values of TARGET_STOP_TIMESTAMP (calculate_start_of_week)
StopTimes == {0, 2}

\* the end_time of an answer; None when the key is absent
EndTimes == {None, 0, 1, 2}

\* The JSON body of the n-th 200 answer of a fetch: data.get(resource) (no record,
\* or the one record n), data.get('end_of_stream', False), data.get('end_time'),
\* data.get('next_page').
Pages(n) == [records : {<<>>, <<n>>},
             end_of_stream : BOOLEAN,
             end_time : EndTimes,
             next_page : {NoUrl} \cup NextPageUrls]

\* requests.get(url, auth=auth) and the status of its answer (500 stands for every
\* status raise_for_status raises on), with the Retry-After header of a 429
Request(u, status, header) == [url |-> u, status |-> status, header |-> header]

\* int(query_params.get('start_time', [0])[0]) of the next_page URL
next_start_time(next_url) == next_url[1]

\* Python truthiness of an int-or-None / of a list
Truthy(x) == x # None /\ x # 0

\* all_records after a 429 answer: the iteration ends at `continue`
RecordsAfter429(recs) == recs

\* a retry that moves the cursor on by one second
UrlMovedOn(u) == <<u[1] + 1>>

\* the URL of the next iteration after a 429 answer: "continue  # Retry the same URL"
UrlAfter429(u) == u

\* a fetch that leaves out the records of a page that names no next page
RecordsWithoutLastPage(recs, page) ==
    IF page.next_page = NoUrl THEN recs ELSE recs \o page.records

\* all_records after a page: "if records: all_records.extend(records)"
RecordsAfterPage(recs, page) == recs \o page.records

\* an early exit that already stops at a cursor equal to the target
StopsAtTarget(f, page, stop) ==
    IF f = EIE THEN page.end_of_stream
    ELSE page.next_page # NoUrl /\ next_start_time(page.next_page) >= stop

\* extract_incremental_endpoint stops at end_of_stream (break); extract_zendesk_data
\* stops before a next_page whose start_time exceeds the target.
Stops(f, page, stop) ==
    IF f = EIE THEN page.end_of_stream
    ELSE page.next_page # NoUrl /\ next_start_time(page.next_page) > stop

\* the URL variable after the page was handled
UrlAfterPage(f, u, page, stop) ==
    IF f = EIE THEN (IF page.end_of_stream THEN u ELSE page.next_page)
    ELSE (IF Stops(f, page, stop) THEN NoUrl ELSE page.next_page)

\* a fetch that takes the end_time of every page it receives
EndTimeOfEveryPage(f, old, page) == page.end_time

\* final_end_time after the page was handled
EndTimeAfterPage(f, old, page) ==
    IF f = EIE THEN (IF page.end_of_stream THEN page.end_time ELSE old)
    ELSE page.end_time

FetchIdle ==
    /\ fetcher = EIE
    /\ syncWm = 0
    /\ outfile = <<>>
    /\ xruns = 0
    /\ fpc = "idle"
    /\ url = NoUrl
    /\ all_records = <<>>
    /\ final_end_time = None
    /\ stop_time = 0
    /\ slept = 0
    /\ lastAnswer = "none"
    /\ retries = 0
    /\ requests = 0
    /\ pages = 0
    /\ limited = 0
    /\ log = <<>>
    /\ lastPage = <<>>

FetchInit ==
    /\ fetcher \in {EIE, EZD}
    /\ syncWm = 0
    /\ outfile = <<>>
    /\ xruns = 0
    /\ fpc = "idle"
    /\ url = NoUrl
    /\ all_records = <<>>
    /\ final_end_time = None
    /\ stop_time = 0
    /\ slept = 0
    /\ lastAnswer = "none"
    /\ retries = 0
    /\ requests = 0
    /\ pages = 0
    /\ limited = 0
    /\ log = <<>>
    /\ lastPage = <<>>

\* an early return that needs the timestamp to be past the target
SyncedPast(last_sync_time, target) == last_sync_time > target

\* main of the stop_time script: if last_sync_time >= TARGET_STOP_TIMESTAMP: return
AlreadySynced(last_sync_time, target) == last_sync_time >= target

\* run_extraction / main up to the first request: load_last_sync_time, and in the
\* stop_time script the "already synced" early return.
StartExtraction ==
    /\ fpc \in {"idle", "saved", "raised", "noop"}
    /\ xruns < MaxExtractions
    /\ xruns' = xruns + 1
    /\ \E target \in (IF fetcher = EZD THEN StopTimes ELSE {0}) :
          /\ stop_time' = target
          /\ fpc' = IF fetcher = EZD /\ AlreadySynced(syncWm, target) THEN "noop" ELSE "loop"
          /\ url' = IF fetcher = EZD /\ AlreadySynced(syncWm, target) THEN NoUrl ELSE <<syncWm>>
    /\ all_records' = <<>>
    /\ final_end_time' = None
    /\ outfile' = <<>>
    /\ slept' = 0
    /\ lastAnswer' = "none"
    /\ retries' = 0
    /\ requests' = 0
    /\ pages' = 0
    /\ limited' = 0
    /\ log' = <<>>
    /\ lastPage' = <<>>
    /\ UNCHANGED <<fetcher, syncWm>>
    /\ UNCHANGED <<loadVars, sideVars>>

\* A loop iteration whose request is answered 429: sleep retry_after, continue.
RateLimited ==
    /\ fpc = "loop"
    /\ url # NoUrl
    /\ limited < MaxRateLimited
    /\ limited' = limited + 1
    /\ \E header \in RetryAfterHeaders :
          /\ slept' = slept + retry_after(header)
          /\ log' = Append(log, Request(url, 429, header))
    /\ url' = UrlAfter429(url)
    /\ all_records' = RecordsAfter429(all_records)
    /\ retries' = retries + 1
    /\ requests' = requests + 1
    /\ lastAnswer' = "429"
    /\ UNCHANGED <<fetcher, syncWm, outfile, xruns, fpc, final_end_time, stop_time, pages,
                   lastPage>>
    /\ UNCHANGED <<loadVars, sideVars>>

\* a loop that takes any bad status as it takes a 429: the request is sent again
HttpErrorRetried ==
    /\ fpc = "loop"
    /\ url # NoUrl
    /\ requests' = requests + 1
    /\ lastAnswer' = "error"
    /\ log' = Append(log, Request(url, 500, <<>>))
    /\ UNCHANGED <<fetcher, syncWm, outfile, xruns, fpc, url, all_records, final_end_time,
                   stop_time, slept, retries, pages, limited, lastPage>>
    /\ UNCHANGED <<loadVars, sideVars>>

\* A loop iteration whose request is answered with another bad status:
\* response.raise_for_status() raises out of the fetch and of the script.
HttpError ==
    /\ fpc = "loop"
    /\ url # NoUrl
    /\ fpc' = "raised"
    /\ requests' = requests + 1
    /\ lastAnswer' = "error"
    /\ log' = Append(log, Request(url, 500, <<>>))
    /\ UNCHANGED <<fetcher, syncWm, outfile, xruns, url, all_records, final_end_time,
                   stop_time, slept, retries, pages, limited, lastPage>>
    /\ UNCHANGED <<loadVars, sideVars>>

\* A loop iteration whose request is answered 200 with a page.
ReceivePage ==
    /\ fpc = "loop"
    /\ url # NoUrl
    /\ pages < MaxPages
    /\ pages' = pages + 1
    /\ \E page \in Pages(pages + 1) :
          /\ all_records' = RecordsAfterPage(all_records, page)
          /\ final_end_time' = EndTimeAfterPage(fetcher, final_end_time, page)
          /\ url' = UrlAfterPage(fetcher, url, page, stop_time)
          /\ fpc' = IF Stops(fetcher, page, stop_time) \/ page.next_page = NoUrl
                    THEN "returned" ELSE "loop"
          /\ slept' = IF ~Stops(fetcher, page, stop_time) /\ page.next_page # NoUrl
                      THEN slept + PacingDelay ELSE slept
          /\ lastPage' = <<page>>
    /\ log' = Append(log, Request(url, 200, <<>>))
    /\ requests' = requests + 1
    /\ retries' = 0
    /\ lastAnswer' = "page"
    /\ UNCHANGED <<fetcher, syncWm, outfile, xruns, stop_time, limited>>
    /\ UNCHANGED <<loadVars, sideVars>>

\* After the fetch returned: write the records file, save the sync timestamp.
\*   run_extraction: the file only "if all_records", the timestamp only
\*     "if timestamp_file and api_end_time", and it is the API's end_time.
\*   main of the stop_time script: the timestamp is TARGET_STOP_TIMESTAMP, always.
SaveExtraction ==
    /\ fpc = "returned"
    /\ outfile' = IF all_records = <<>> THEN <<>>
                  ELSE IF fetcher = EZD
                       THEN <<[name |-> <<"until", stop_time>>, records |-> all_records]>>
                  ELSE IF Truthy(final_end_time)
                       THEN <<[name |-> <<"until", final_end_time>>, records |-> all_records]>>
                  ELSE <<[name |-> <<"at", now>>, records |-> all_records]>>
    /\ syncWm' = IF fetcher = EZD THEN stop_time
                 ELSE IF Truthy(final_end_time) THEN final_end_time
                 ELSE syncWm
    /\ fpc' = "saved"
    /\ UNCHANGED <<fetcher, xruns, url, all_records, final_end_time, stop_time, slept,
                   lastAnswer, retries, requests, pages, limited, log, lastPage>>
    /\ UNCHANGED <<loadVars, sideVars>>

FetchNext ==
    \/ StartExtraction
    \/ RateLimited
    \/ HttpError
    \/ ReceivePage
    \/ SaveExtraction

----------------------------------------------------------------------------
(* Specifications *)

\* load runs of one call site against its table
\* no transform script runs
ScriptIdle ==
    /\ transform_of = <<>>
    /\ input_dir = {}
    /\ file_name = <<>>
    /\ tpc = "idle"
    /\ exported = <<>>

\* no DataFrame is being deduplicated
TransformIdle == df = <<>> /\ deduped = <<>> /\ ScriptIdle

\* infer_schema is not being called
SchemaIdle == schema_in = <<>> /\ schema_out = <<>>

\* the columns of the table are not looked at
EvolveIdle == table_columns = {} /\ df_columns = <<>> /\ evolved = <<>>

\* no flow run
DagIdle ==
    /\ run_flags = <<>>
    /\ task_state = <<>>
    /\ flow_state = "idle"
    /\ next_task = 0
    /\ running = <<>>
    /\ started = <<>>

\* nothing but load runs or extraction runs
SideIdle == TransformIdle /\ SchemaIdle /\ EvolveIdle /\ DagIdle

Init == LoadInit /\ FetchIdle /\ SideIdle
Next == LoadNext
Spec == Init /\ [][Next]_vars

\* extraction runs of one resource
LoadIdle ==
    /\ cfg = IncrementalLoad
    /\ plan = <<>>
    /\ LoadStart({}, 0)
InitFetch == LoadIdle /\ FetchInit /\ SideIdle
SpecFetch == InitFetch /\ [][FetchNext]_vars

\* load runs on files without the updated_at column
InitShape == ShapeInit /\ FetchIdle /\ SideIdle
SpecShape == InitShape /\ [][ShapeNext]_vars

----------------------------------------------------------------------------
(* Properties of the load runs *)

\* the table the run in progress started its batch loop on
TableAtLoopStart == AfterSchemaStep(t0, TRUE, cfg, incremental)

\* the table an unbroken batch loop leaves after the first s rows of the file
Committed(s) ==
    AfterBatches(TableAtLoopStart, file, cfg, incremental, last_load_ts,
                 current_timestamp, s)

C1_FailedState ==
    pc = "failed" =>
        /\ loadWm = wm0
        /\ start_idx < Len(file)
        /\ table = Committed(start_idx)

C1_WriteAfterLastCommit ==
    /\ loadWm' # loadWm =>
          pc = "loop" /\ start_idx >= Len(file) /\ pc' = "done" /\ table' = table
    /\ (pc = "loop" /\ pc' = "failed") =>
          table' = table /\ loadWm' = loadWm /\ total_rows' = total_rows
    /\ pc = "failed" => pc' # "done"

\* C1: the load watermark is written only in the step after the batch loop has
\* ended, with every batch committed.  When the insert of a batch raises, the
\* statement is rolled back, the run ends failed (never done), the table holds
\* exactly what the batches before it committed, and the watermark file holds
\* the value it had before the run.
C1_WatermarkAfterCommits == [](C1_FailedState) /\ [][C1_WriteAfterLastCommit]_vars

\* a second run fails on its second batch after its first batch changed the table
C1_Witness ==
    /\ pc = "failed"
    /\ wm0 > 0
    /\ start_idx >= BatchSize
    /\ total_rows > 0
    /\ table # TableAtLoopStart

\* the parsed updated_at of row i of the input file
ParsedAt(i) == parse_iso_timestamp(file[i].updated_at)

\* C2: when an incremental run of load_parquet_incremental has ended and saved
\* the watermark W, every row of its input file with a parsed update time <= W
\* is in the table under its key: neither the strict filter nor the wall-clock
\* watermark made the loader pass over a row it had never loaded.
C2_CoveredRowsAreLoaded ==
    (pc = "done" /\ incremental /\ cfg = IncrementalLoad) =>
        \A i \in 1..Len(file) :
            (ParsedAt(i) # None /\ ParsedAt(i) <= loadWm) =>
                \E r \in table : r.id = file[i].id

\* C3: when an incremental run that failed after committing a batch has been run
\* again on the same file and has ended, the table is the table one unbroken run
\* would have left, and holds one row per entity.
C3_RerunAppliesOnce ==
    (pc = "done" /\ incremental /\ crashed # NoCrash /\ crashed[1].rerun
        /\ crashed[1].partial) =>
        /\ table = AfterBatches(AfterSchemaStep(crashed[1].t0, TRUE, cfg, incremental),
                                file, cfg, incremental, last_load_ts,
                                current_timestamp, Len(file))
        /\ \A r1, r2 \in table : r1.id = r2.id => r1 = r2

\* C4: throughout and after a run in incremental mode, every row the table held
\* before the run is still in the table under its key.
C4_IncrementalKeepsRows ==
    (pc \in {"loop", "done", "failed"} /\ incremental) =>
        \A r \in t0 : KeyOf(r, cfg.pk) \in Keys(table, cfg.pk)

\* a pass of the batch loop that did not raise
BatchPassed == pc = "loop" /\ pc' = "loop" /\ start_idx' > start_idx

\* row r of the chunk just passed was inserted by this run
InsertedNow(r) == Stamp(r, cfg, current_timestamp) \in table'

C5_FilterByWatermark ==
    (BatchPassed /\ incremental) =>
        \A r \in SeqToSet(Chunk(file, start_idx)) :
            InsertedNow(r) <=>
                \/ parse_iso_timestamp(r.updated_at) = None
                \/ parse_iso_timestamp(r.updated_at) > wm0

\* C5 as stated: in every pass of the batch loop of an incremental run, a row of
\* the chunk is inserted if and only if its update timestamp parses to more than
\* the load watermark read at the start of the run, or does not parse.
C5_LoadedIffNewer == [][C5_FilterByWatermark]_vars

C5_FilterWhenWatermarkExists ==
    (BatchPassed /\ incremental) =>
        \A r \in SeqToSet(Chunk(file, start_idx)) :
            InsertedNow(r) <=>
                \/ wm0 = 0
                \/ parse_iso_timestamp(r.updated_at) = None
                \/ parse_iso_timestamp(r.updated_at) > wm0

\* C5 amended: the filter applies when the load watermark read at the start of
\* the run is greater than 0; then a row is inserted if and only if its update
\* timestamp parses to more than that watermark, or does not parse.  When the
\* watermark read is 0 (no watermark file) every row is inserted.
C5_LoadedIffNewerThanPositiveWatermark == [][C5_FilterWhenWatermarkExists]_vars

\* an incremental run with a watermark has ended having filtered out a row with
\* a parseable timestamp and loaded a newer row
C5_Witness ==
    /\ pc = "done"
    /\ incremental
    /\ wm0 > 0
    /\ \E i, j \in 1..Len(file) :
          /\ ParsedAt(i) # None /\ ParsedAt(i) <= wm0
          /\ Stamp(file[i], cfg, current_timestamp) \notin table
          /\ ParsedAt(j) > wm0
          /\ Stamp(file[j], cfg, current_timestamp) \in table

\* the rows of the file that the run in progress loads
LoadedRows ==
    {i \in 1..Len(file) : wm0 = 0 \/ ParsedAt(i) = None \/ ParsedAt(i) > wm0}

LoadedTimestamps == {ParsedAt(i) : i \in LoadedRows} \ {None}

\* C6: when an incremental run has ended and one of the rows it loaded has a
\* parseable update timestamp greater than the watermark read at its start, the
\* watermark file holds the greatest parsed update timestamp of the loaded rows.
C6_WatermarkIsMaxLoaded ==
    (pc = "done" /\ incremental /\ \E ts \in LoadedTimestamps : ts > wm0) =>
        loadWm = SetMax(LoadedTimestamps)

\* a run with a watermark filtered out a row, loaded a newer one and saved the
\* newer timestamp
C6_Witness ==
    /\ pc = "done"
    /\ incremental
    /\ wm0 > 0
    /\ loadWm > wm0
    /\ Len(file) > BatchSize
    /\ \E i \in LoadedRows : ParsedAt(i) = loadWm
    /\ \E i \in 1..Len(file) : i \notin LoadedRows

\* C7: no step lowers the load watermark or the sync watermark.
C7_WatermarksNeverDecrease == [][loadWm' >= loadWm /\ syncWm' >= syncWm]_vars

----------------------------------------------------------------------------
(* Two consecutive incremental loads keyed by id *)

\* rows of the first input file
ScenarioRows == 3

IsoStamp(n) == [k |-> "iso", e |-> n]

\* the first file has rows 1..rows, all stamped T; the second file has the same
\* rows and one new row, stamped T2 > T, at position at
ScenarioPlans ==
    {p \in [rows : 1..ScenarioRows, T : 1..MaxTs, T2 : 1..MaxTs,
            at : 1..(ScenarioRows + 1), run : {0}] :
        p.T < p.T2 /\ p.at <= p.rows + 1}

OldRows(p) == [i \in 1..p.rows |-> [id |-> i, updated_at |-> IsoStamp(p.T)]]

NewRow(p) == [id |-> p.rows + 1, updated_at |-> IsoStamp(p.T2)]

SecondFile(p) ==
    SubSeq(OldRows(p), 1, p.at - 1) \o <<NewRow(p)>> \o SubSeq(OldRows(p), p.at, p.rows)

ScenarioInit ==
    /\ cfg \in {IncrementalLoad, ParquetLoad}
    /\ plan \in ScenarioPlans
    /\ LoadStart({}, 0)
    /\ FetchIdle
    /\ SideIdle

\* the next incremental run of the scenario
ScenarioRun ==
    /\ pc = "idle"
    /\ plan.run < 2
    /\ \E tick \in {t \in Ticks : t > now} :
          Enter(IF plan.run = 0 THEN OldRows(plan) ELSE SecondFile(plan), TRUE, tick)
    /\ plan' = [plan EXCEPT !.run = @ + 1]

ScenarioNext ==
    \/ ScenarioRun
    \/ SkipBatch
    \/ InsertBatch
    \/ FinishRun
    \/ Return

SpecScenario == ScenarioInit /\ [][ScenarioNext]_vars

\* the input rows the table holds
TableContent == {[id |-> r.id, updated_at |-> r.updated_at] : r \in table}

----------------------------------------------------------------------------
(* The same input loaded twice, at watermark W1 and then at watermark W2 *)

\* tables a previous load left
EarlierTables ==
    {{}} \cup {{Stamp([id |-> i, updated_at |-> IsoStamp(0)], IncrementalLoad, 0)} : i \in Ids}

\* run counts the progress: 0 nothing done, 1 first run started, 2 watermark file
\* set to W2 after the first run, 3 second run started
TwicePlans ==
    {p \in [W1 : 0..MaxTs, W2 : 0..MaxTs, input : Files, T0 : EarlierTables, run : {0}] :
        p.W1 < p.W2}

TwiceInit ==
    /\ cfg = IncrementalLoad
    /\ plan \in TwicePlans
    /\ LoadStart(plan.T0, plan.W1)
    /\ FetchIdle
    /\ SideIdle

\* a run of load_parquet_incremental on the input
TwiceRun ==
    /\ pc = "idle"
    /\ plan.run \in {0, 2}
    /\ \E tick \in {t \in Ticks : t > now} : Enter(plan.input, TRUE, tick)
    /\ plan' = [plan EXCEPT !.run = @ + 1]

\* between the runs the watermark file is given the value W2
SetWatermark ==
    /\ pc = "idle"
    /\ plan.run = 1
    /\ loadWm' = plan.W2
    /\ plan' = [plan EXCEPT !.run = 2]
    /\ UNCHANGED <<cfg, has_updated_at, tableExists, table, now, pc, file, incremental, start_idx,
                   last_load_ts, max_updated_at, total_rows, current_timestamp,
                   t0, wm0, crashed>>
    /\ UNCHANGED <<fetchVars, sideVars>>

TwiceNext ==
    \/ TwiceRun
    \/ SetWatermark
    \/ SkipBatch
    \/ InsertBatch
    \/ FinishRun
    \/ Return

SpecTwice == TwiceInit /\ [][TwiceNext]_vars

\* the table a single run at watermark W2 leaves, run at the time of the second run
SingleRunAtW2 ==
    AfterBatches(plan.T0, plan.input, cfg, TRUE, plan.W2, current_timestamp,
                 Len(plan.input))

\* no key occurs twice with conflicting values and a timestamp in (W1, W2)
NoConflictBetween(f, W1, W2) ==
    \A i, j \in 1..Len(f) :
        ~ /\ f[i].id = f[j].id
          /\ f[i] # f[j]
          /\ parse_iso_timestamp(f[i].updated_at) > W1
          /\ parse_iso_timestamp(f[i].updated_at) < W2

\* C9 as stated: for W1 < W2 and an input in which no key occurs twice with
\* conflicting values and a timestamp in (W1, W2), the table after the run at W1
\* and the run at W2 is the table a single run at W2 leaves.
C9_TwiceEqualsSingle ==
    (pc = "done" /\ plan.run = 3 /\ NoConflictBetween(plan.input, plan.W1, plan.W2)) =>
        table = SingleRunAtW2

\* the run at W1 loads no row that the run at W2 filters out: no row has a
\* parseable timestamp t <= W2 with W1 < t, or with W1 = 0 (no filter)
NoRowBetween(f, W1, W2) ==
    \A i \in 1..Len(f) :
        LET t == parse_iso_timestamp(f[i].updated_at)
        IN  ~ (t # None /\ t <= W2 /\ (W1 = 0 \/ t > W1))

\* C9 amended: for W1 < W2 and an input of which the run at W1 loads no row that
\* the run at W2 filters out, the table after the run at W1 and the run at W2 is
\* the table a single run at W2, made at the time of the second run, leaves.
\* (Every run that ends leaves the table of an unbroken batch loop.)
C9_TwiceEqualsSingleWhenNoRowBetween ==
    /\ pc = "done" => table = Committed(Len(file))
    /\ (pc = "done" /\ plan.run = 3 /\ NoRowBetween(plan.input, plan.W1, plan.W2)) =>
          table = SingleRunAtW2

\* both runs loaded a row over a table that held another row, and filtered a row
C9_Witness ==
    /\ pc = "done"
    /\ plan.run = 3
    /\ NoRowBetween(plan.input, plan.W1, plan.W2)
    /\ plan.W1 > 0
    /\ plan.T0 # {}
    /\ total_rows > 0
    /\ total_rows < Len(file)
    /\ table # plan.T0

----------------------------------------------------------------------------
(* Properties of the fetch loop *)

\* the step is one request answered 429
Answered429 == requests' = requests + 1 /\ lastAnswer' = "429"

C10_RetrySameRequest ==
    Answered429 =>
        /\ fpc = "loop" /\ fpc' = "loop"
        /\ url' = url
        /\ all_records' = all_records
        /\ final_end_time' = final_end_time
        /\ pages' = pages
        /\ retries' = retries + 1
        /\ \E header \in RetryAfterHeaders : slept' = slept + retry_after(header)

\* after any number of 429 answers in a row the loop still takes a 429 answer
\* and still takes a page
C10_NoRetryLimit ==
    (fpc = "loop" /\ url # NoUrl /\ retries > 0) =>
        /\ limited < MaxRateLimited => ENABLED RateLimited
        /\ pages < MaxPages => ENABLED ReceivePage

\* C10: a request answered 429 makes the fetcher sleep the Retry-After seconds,
\* or the default without the header, and leaves the loop on the same URL with
\* the same collected records and the same end time; however many 429 answers
\* came in a row, the loop still issues the request again and processes the page
\* that answers it.
C10_RateLimitRetries == [](C10_NoRetryLimit) /\ [][C10_RetrySameRequest]_vars

\* the first page was processed after MaxRateLimited answers of 429 in a row
C10_Witness ==
    /\ lastAnswer = "page"
    /\ pages = 1
    /\ limited = MaxRateLimited
    /\ requests = MaxRateLimited + 1
    /\ slept > 0
    /\ all_records # <<>>

\* the fetch issued two requests: the first answered 429 with Retry-After: 2, the
\* second answered 200
One429Then200 ==
    /\ Len(log) = 2
    /\ log[1].status = 429
    /\ log[1].header = <<2>>
    /\ log[2].status = 200

\* C11: a fetch whose first request is answered 429 with Retry-After: 2 and whose
\* second request is answered 200 has not failed, has slept at least 2 seconds,
\* has sent the second request to the URL of the first (one retry, two requests
\* in all), and holds the records of the page; it has returned unless the page
\* points to a further page.
C11_One429Then200 ==
    One429Then200 =>
        /\ fpc \in {"loop", "returned", "saved"}
        /\ fpc = "loop" => (url # NoUrl /\ url = lastPage[1].next_page)
        /\ slept >= 2
        /\ log[2].url = log[1].url
        /\ requests = 2
        /\ limited = 1
        /\ all_records = lastPage[1].records

\* the fetch returned after the two requests and the run saved its result
C11_Witness ==
    /\ One429Then200
    /\ fpc = "saved"
    /\ slept = 2
    /\ all_records # <<>>

\* the request of this step was answered with a bad status other than 429
AnsweredError == Len(log') = Len(log) + 1 /\ log'[Len(log')].status = 500

C12_FailedRun ==
    fpc = "raised" =>
        /\ outfile = <<>>
        /\ log[Len(log)].status = 500
        /\ \A i \in 1..(Len(log) - 1) : log[i].status # 500
        /\ log[1].url = <<syncWm>>

C12_FailStep ==
    /\ AnsweredError =>
          fpc' = "raised" /\ syncWm' = syncWm /\ outfile' = outfile
    /\ fpc = "raised" =>
          /\ syncWm' = syncWm
          /\ fpc' = "raised" \/ (xruns' = xruns + 1 /\ log' = <<>>)
    /\ (syncWm' # syncWm \/ outfile' \notin {outfile, <<>>}) =>
          fpc = "returned" /\ fpc' = "saved"

\* C12: a request answered with a bad status other than 429 ends the fetch at
\* once, failed: it is the last request of the run and the only one so answered,
\* the run writes no output file and saves no sync timestamp, so the timestamp
\* file still holds the value the run read at its start (the start_time of its
\* first request), however many pages the fetch had received.
C12_FatalHttpError == [](C12_FailedRun) /\ [][C12_FailStep]_vars

\* a second run, started from a saved timestamp, failed after a page with records
\* and a 429 answer
C12_Witness ==
    /\ fpc = "raised"
    /\ syncWm > 0
    /\ pages >= 1
    /\ limited >= 1
    /\ all_records # <<>>

\* C13: when the last answer was a page that carries the end-of-stream flag, the
\* fetch has returned (the loop does not go on to the next_page of the page), the
\* end timestamp it returns is the end_time of that page, and the records of the
\* page are the last of the records collected.
C13_StopsAtEndOfStream ==
    (lastAnswer = "page" /\ lastPage[1].end_of_stream) =>
        /\ fpc \in {"returned", "saved"}
        /\ final_end_time = lastPage[1].end_time
        /\ \E before \in {SubSeq(all_records, 1, n) : n \in 0..Len(all_records)} :
              all_records = before \o lastPage[1].records

\* C13 for extract_incremental_endpoint alone
C13_PlainFetcherStopsAtEndOfStream == fetcher = EIE => C13_StopsAtEndOfStream

\* the last answer was a page with a next_page cursor, received by the stop_time
\* fetcher
PageWithCursor ==
    fetcher = EZD /\ lastAnswer = "page" /\ lastPage[1].next_page # NoUrl

C14_AfterPage ==
    PageWithCursor =>
        IF next_start_time(lastPage[1].next_page) > stop_time
        THEN /\ fpc \in {"returned", "saved"}
             /\ url = NoUrl
             /\ log[Len(log)].status = 200
             /\ \A i \in 1..Len(log) : log[i].url # lastPage[1].next_page
             /\ fpc = "saved" =>
                   /\ syncWm = stop_time
                   /\ all_records # <<>> =>
                         outfile = <<[name |-> <<"until", stop_time>>,
                                      records |-> all_records]>>
        ELSE /\ fpc = "loop"
             /\ url = lastPage[1].next_page

C14_Step ==
    /\ Len(log') = Len(log) + 1 => log'[Len(log')].url = url
    /\ (fetcher = EZD /\ Len(log') = Len(log) + 1 /\ log'[Len(log')].status = 200) =>
          all_records' = all_records \o lastPage'[1].records
    /\ (fetcher = EZD /\ fpc = "returned" /\ fpc' = "saved") =>
          syncWm' = stop_time /\ all_records' = all_records

\* C14: in extract_zendesk_data, after a page whose next_page carries a
\* start_time greater than the target, the fetch has returned, no request went to
\* that cursor, the records of every page received are kept, and main saves the
\* target (not the end_time of the server) as the sync timestamp and names the
\* output file after it.  After a page whose next_page carries a start_time not
\* greater than the target the loop goes on with that cursor: every request goes
\* to the URL the loop holds.
C14_EarlyExitAtStopTime == [](C14_AfterPage) /\ [][C14_Step]_vars

\* the first cursor, at the target, was followed; the second, beyond it, was not;
\* the run saved the target although the server reported another end_time
C14_Witness ==
    /\ PageWithCursor
    /\ fpc = "saved"
    /\ pages = 2
    /\ log[1].url # log[Len(log)].url
    /\ next_start_time(log[Len(log)].url) = stop_time
    /\ next_start_time(lastPage[1].next_page) > stop_time
    /\ Len(all_records) = 2
    /\ Truthy(final_end_time)
    /\ final_end_time # stop_time
    /\ syncWm = stop_time

C15_NoOpRun ==
    fpc = "noop" =>
        /\ fetcher = EZD
        /\ syncWm >= stop_time
        /\ log = <<>>
        /\ requests = 0
        /\ outfile = <<>>

C15_NoOpStep ==
    /\ (fetcher = EZD /\ xruns' = xruns + 1 /\ syncWm >= stop_time') =>
          fpc' = "noop" /\ syncWm' = syncWm
    /\ fpc = "noop" =>
          /\ syncWm' = syncWm
          /\ fpc' = "noop" \/ xruns' = xruns + 1

----------------------------------------------------------------------------
(* The deduplicator of the transform stage *)

\* most records in a DataFrame handed to deduplicate_dataframe
DedupLen == 3

\* pandas NaT, what pd.to_datetime(.., errors='coerce') gives for a null or
\* unparseable cell
NaT == None

\* The DataFrames: the columns are some of "id" (the primary key column named in
\* the call), "updated_at" and "payload"; the payload of a record is its arrival
\* number, so that two records are never equal.
ColumnSets == {cols \cup {"payload"} : cols \in SUBSET {"id", "updated_at"}}

Cell(col, id, stamp, i) ==
    IF col = "id" THEN id ELSE IF col = "updated_at" THEN stamp ELSE i

RECURSIVE Frames(_, _)
Frames(cols, n) ==
    IF n = 0 THEN {<<>>}
    ELSE LET shorter == Frames(cols, n - 1)
         IN  shorter \cup
             {Append(f, [col \in cols |-> Cell(col, id, stamp, n)]) :
                 f \in {g \in shorter : Len(g) = n - 1}, id \in Ids, stamp \in Stamps}

\* the calls: the DataFrame, and the updated_at_column argument (<<>>: None)
DedupCalls ==
    UNION {[columns : {cols}, records : Frames(cols, DedupLen),
            updated_at_column : {<<>>, <<"updated_at">>}] : cols \in ColumnSets}

\* pd.to_datetime(df[updated_at_column], errors='coerce') of one cell
to_datetime(cell) == IF cell.k = "iso" THEN cell.e ELSE NaT

\* a faulty order: both columns ascending, NaT last
SortsBeforeAscending(a, b) ==
    \/ a.id < b.id
    \/ /\ a.id = b.id
       /\ to_datetime(a.updated_at) # NaT
       /\ \/ to_datetime(b.updated_at) = NaT
          \/ to_datetime(a.updated_at) < to_datetime(b.updated_at)

\* a sorts before b under sort_values([pk, '_parsed_updated_at'],
\* ascending=[True, False]), NaT last
SortsBefore(a, b) ==
    \/ a.id < b.id
    \/ /\ a.id = b.id
       /\ to_datetime(a.updated_at) # NaT
       /\ \/ to_datetime(b.updated_at) = NaT
          \/ to_datetime(a.updated_at) > to_datetime(b.updated_at)

\* a faulty variant: r is put in front of the records it ties with
RECURSIVE InsertBeforeTies(_, _)
InsertBeforeTies(s, r) ==
    IF s = <<>> THEN <<r>>
    ELSE IF ~SortsBefore(Head(s), r) THEN <<r>> \o s
    ELSE <<Head(s)>> \o InsertBeforeTies(Tail(s), r)

\* r put into the sorted sequence s behind every record that does not sort after it
RECURSIVE InsertSorted(_, _)
InsertSorted(s, r) ==
    IF s = <<>> THEN <<r>>
    ELSE IF SortsBefore(r, Head(s)) THEN <<r>> \o s
    ELSE <<Head(s)>> \o InsertSorted(Tail(s), r)

\* df.sort_values on the two columns: the sort of pandas on several columns is a
\* lexsort, which keeps records with equal keys in their order of arrival
RECURSIVE sort_values(_)
sort_values(recs) ==
    IF recs = <<>> THEN <<>>
    ELSE InsertSorted(sort_values(SubSeq(recs, 1, Len(recs) - 1)), recs[Len(recs)])

\* a faulty variant: the last record of every key is kept
drop_duplicates_last(recs) ==
    LET last(i) == \A j \in (i + 1)..Len(recs) : recs[j].id # recs[i].id
        RECURSIVE from(_)
        from(i) == IF i > Len(recs) THEN <<>>
                   ELSE IF last(i) THEN <<recs[i]>> \o from(i + 1)
                   ELSE from(i + 1)
    IN  from(1)

\* df.drop_duplicates(subset=[pk], keep='first')
drop_duplicates(recs) ==
    LET first(i) == \A j \in 1..(i - 1) : recs[j].id # recs[i].id
        RECURSIVE from(_)
        from(i) == IF i > Len(recs) THEN <<>>
                   ELSE IF first(i) THEN <<recs[i]>> \o from(i + 1)
                   ELSE from(i + 1)
    IN  from(1)

\* a faulty variant: records without the key column are taken to share one key
KeepsOneWithoutKey(d) ==
    [df |-> SubSeq(d.records, 1, Min(1, Len(d.records))),
     duplicates_removed |-> Len(d.records) - Min(1, Len(d.records))]

\* return df, 0: the DataFrame as it came, nothing removed
PassThrough(d) == [df |-> d.records, duplicates_removed |-> 0]

\* deduplicate_dataframe(df, "id", updated_at_column): the DataFrame returned and
\* duplicates_removed
deduplicate_dataframe(d) ==
    IF "id" \notin d.columns THEN PassThrough(d)
    ELSE LET out == IF d.updated_at_column # <<>> /\ d.updated_at_column[1] \in d.columns
                    THEN drop_duplicates(sort_values(d.records))
                    ELSE drop_duplicates(d.records)
         IN  [df |-> out, duplicates_removed |-> Len(d.records) - Len(out)]

\* the caller's DataFrame after the call: df['_parsed_updated_at'] = ... adds the
\* column to it before the sort makes a copy
AfterCall(d) ==
    IF "id" \in d.columns /\ d.updated_at_column # <<>>
       /\ d.updated_at_column[1] \in d.columns
    THEN [d EXCEPT !.columns = @ \cup {"_parsed_updated_at"}]
    ELSE d

DedupInit ==
    /\ cfg = IncrementalLoad
    /\ plan = <<>>
    /\ LoadStart({}, 0)
    /\ FetchIdle
    /\ df \in {<<d>> : d \in DedupCalls}
    /\ deduped = <<>>
    /\ ScriptIdle
    /\ SchemaIdle /\ EvolveIdle /\ DagIdle

\* one call of deduplicate_dataframe
Deduplicate ==
    /\ deduped = <<>>
    /\ deduped' = <<deduplicate_dataframe(df[1])>>
    /\ df' = <<AfterCall(df[1])>>
    /\ UNCHANGED <<transform_of, input_dir, file_name, tpc, exported>>
    /\ UNCHANGED <<loadVars, fetchVars, schemaVars, evolveVars, dagVars>>

DedupNext == Deduplicate

SpecDedup == DedupInit /\ [][DedupNext]_vars

----------------------------------------------------------------------------
(* Claims about the deduplicator, checked under SpecDedup *)

\* the records handed to the call and the records it returned
Input == df[1].records
Output == deduped[1].df

Called == deduped # <<>>

\* the call names an updated_at column and the DataFrame has it and the key column
ByUpdatedAt ==
    /\ "id" \in df[1].columns
    /\ df[1].updated_at_column = <<"updated_at">>
    /\ "updated_at" \in df[1].columns

\* the call names no updated_at column, or the DataFrame has no such column
ByArrival ==
    /\ "id" \in df[1].columns
    /\ \/ df[1].updated_at_column = <<>>
       \/ "updated_at" \notin df[1].columns

WithKey(recs, k) == {i \in DOMAIN recs : recs[i].id = k}

Parseable(r) == to_datetime(r.updated_at) # NaT

\* C16: when the call sorts by the updated_at column and two records of the
\* input share a primary key with parseable updated_at values T1 < T2, the
\* output has exactly one record with that key; it is never the record with T1,
\* its parsed updated_at is the latest of the key, and when the two are the only
\* records of the key it is the record with T2, in either arrival order.
C16_LatestOfTwoKept ==
    (Called /\ ByUpdatedAt) =>
        \A i, j \in DOMAIN Input :
            (/\ Input[i].id = Input[j].id
             /\ Parseable(Input[i]) /\ Parseable(Input[j])
             /\ to_datetime(Input[i].updated_at) < to_datetime(Input[j].updated_at)) =>
                /\ Cardinality(WithKey(Output, Input[i].id)) = 1
                /\ \A o \in WithKey(Output, Input[i].id) :
                      /\ Output[o] # Input[i]
                      /\ \A k \in WithKey(Input, Input[i].id) :
                            Parseable(Input[k]) =>
                                to_datetime(Output[o].updated_at)
                                    >= to_datetime(Input[k].updated_at)
                      /\ WithKey(Input, Input[i].id) = {i, j} => Output[o] = Input[j]

\* the older record arrived first, the newer second, a record of another key
\* third, and the newer one is what the call returned for the key
C16_Witness ==
    /\ Called /\ ByUpdatedAt
    /\ Len(Input) = 3
    /\ Input[1].id = Input[2].id /\ Input[3].id # Input[1].id
    /\ Parseable(Input[1]) /\ Parseable(Input[2])
    /\ to_datetime(Input[1].updated_at) < to_datetime(Input[2].updated_at)
    /\ \E o \in DOMAIN Output : Output[o] = Input[2]
    /\ deduped[1].duplicates_removed = 1

\* C17: when the DataFrame has no updated_at column, or the call names none, the
\* call returns (it can always be taken), and for every primary key of the input
\* the output has exactly one record, the first of that key in arrival order.
C17_FirstSeenKept ==
    ByArrival =>
        /\ ~Called => ENABLED Deduplicate
        /\ Called =>
              \A i \in DOMAIN Input :
                  /\ Cardinality(WithKey(Output, Input[i].id)) = 1
                  /\ \A o \in WithKey(Output, Input[i].id) :
                        /\ Output[o] \in {Input[k] : k \in WithKey(Input, Input[i].id)}
                        /\ \A k \in WithKey(Input, Input[i].id) :
                              Output[o].payload <= Input[k].payload

\* an updated_at column is named but the DataFrame has none; two of three
\* records share a key and the first of them is returned
C17_Witness ==
    /\ Called
    /\ "id" \in df[1].columns
    /\ df[1].updated_at_column = <<"updated_at">>
    /\ "updated_at" \notin df[1].columns
    /\ Len(Input) = 3
    /\ Input[1].id # Input[2].id /\ Input[3].id = Input[2].id
    /\ Output = <<Input[1], Input[2]>>
    /\ deduped[1].duplicates_removed = 1

\* the records of key k whose parsed updated_at is the latest of the key
Latest(recs, k) ==
    {i \in WithKey(recs, k) :
        /\ Parseable(recs[i])
        /\ \A j \in WithKey(recs, k) :
              Parseable(recs[j]) =>
                  to_datetime(recs[i].updated_at) >= to_datetime(recs[j].updated_at)}

\* C18: when the call sorts by the updated_at column and several records of a
\* key have the latest parsed updated_at of that key, the record returned for
\* the key is the one of them that arrived first.
C18_FirstAmongTies ==
    (Called /\ ByUpdatedAt) =>
        \A i \in DOMAIN Input :
            Cardinality(Latest(Input, Input[i].id)) > 1 =>
                \A o \in WithKey(Output, Input[i].id) :
                    /\ Output[o] \in {Input[k] : k \in Latest(Input, Input[i].id)}
                    /\ \A k \in Latest(Input, Input[i].id) :
                          Output[o].payload <= Input[k].payload

\* an older record arrives first, then two records tied on a later time; the
\* second record of the input is the one returned
C18_Witness ==
    /\ Called /\ ByUpdatedAt
    /\ Len(Input) = 3
    /\ Latest(Input, Input[1].id) = {2, 3}
    /\ Output = <<Input[2]>>

\* C19: when the primary key column is not a column of the DataFrame, the call
\* returns (it can always be taken), the records returned are the records of
\* the input in the same order, and duplicates_removed is 0.
C19_PassThroughWithoutKey ==
    "id" \notin df[1].columns =>
        /\ ~Called => ENABLED Deduplicate
        /\ Called =>
              /\ Output = Input
              /\ deduped[1].duplicates_removed = 0

\* three records without a key column, two of them with the same updated_at,
\* and an updated_at column named in the call
C19_Witness ==
    /\ Called
    /\ df[1].columns = {"updated_at", "payload"}
    /\ df[1].updated_at_column = <<"updated_at">>
    /\ Len(Input) = 3
    /\ Input[1].updated_at = Input[2].updated_at
    /\ Len(Output) = 3

----------------------------------------------------------------------------
(* The upsert of the batch loop, checked under Spec *)

\* the rows of the file that pass the filter of the run in progress
KeptRows == {i \in 1..Len(file) : Keep(file[i], cfg, incremental, last_load_ts)}

\* the table row the run makes of row i of the file
RowOf(i) == Stamp(file[i], cfg, current_timestamp)

\* the last row of the file loaded under the key of row i
LastWithKeyOf(i) ==
    SetMax({j \in KeptRows : KeyOf(RowOf(j), cfg.pk) = KeyOf(RowOf(i), cfg.pk)})

\* C20: when a load has ended without a failure, for every row it loaded the
\* table holds exactly one row with the key of that row, and it is the row made
\* of the last loaded row of the file with that key: a later batch wins over an
\* earlier one, and the row the table held under the key before the run is gone
\* whatever its update timestamp was.
C20_LastLoadedRowWins ==
    pc = "done" =>
        \A i \in KeptRows :
            {r \in table : KeyOf(r, cfg.pk) = KeyOf(RowOf(i), cfg.pk)}
                = {RowOf(LastWithKeyOf(i))}

\* the table held a row of the key with a later update timestamp than both rows
\* of the file; both were loaded, in two batches, and the second is in the table
C20_Witness ==
    /\ pc = "done"
    /\ Len(file) = 2
    /\ KeptRows = {1, 2}
    /\ Len(file) > BatchSize
    /\ KeyOf(RowOf(1), cfg.pk) = KeyOf(RowOf(2), cfg.pk)
    /\ file[1].updated_at # file[2].updated_at
    /\ ParsedAt(2) # None
    /\ \E t \in t0 :
          /\ KeyOf(t, cfg.pk) = KeyOf(RowOf(2), cfg.pk)
          /\ parse_iso_timestamp(t.updated_at) > ParsedAt(2)
    /\ RowOf(2) \in table

----------------------------------------------------------------------------
(* The watermark policy when no timestamp is to be had *)

\* the run in progress got no timestamp from the rows it loaded: the file has no
\* updated_at column, or none of the loaded rows has an updated_at that parses
NoTimestampSignal ==
    \/ ~has_updated_at
    \/ \A i \in KeptRows : ParsedAt(i) = None

\* C21: when an incremental load has ended having loaded at least one row
\* without any timestamp signal, the watermark file holds the wall-clock time of
\* the run, whichever loader ran.
C21_FallbackWatermark ==
    (pc = "done" /\ incremental /\ total_rows > 0 /\ NoTimestampSignal) =>
        loadWm = current_timestamp

\* C21 for load_parquet_incremental alone
C21_ParquetIncrementalFallback == cfg.fn = PI => C21_FallbackWatermark

\* C22: when an incremental load has ended having loaded no row and there was no
\* watermark file at its start, the watermark file holds the wall-clock time of
\* the run, whichever loader ran.
C22_BootstrapWatermark ==
    (pc = "done" /\ incremental /\ total_rows = 0 /\ wm0 = 0) =>
        loadWm = current_timestamp

\* C22 for load_parquet_incremental alone
C22_ParquetIncrementalBootstrap == cfg.fn = PI => C22_BootstrapWatermark

----------------------------------------------------------------------------
(* Input files without the updated_at column, checked under SpecShape *)

\* an incremental load on such a file has ended: every row of the file was loaded
C23_AllRowsLoaded ==
    (pc = "done" /\ incremental /\ ~has_updated_at) =>
        /\ total_rows = Len(file)
        /\ \A i \in 1..Len(file) : KeyOf(RowOf(i), cfg.pk) \in Keys(table, cfg.pk)

\* an incremental load starts on such a file: it reaches its batch loop
C23_EntersLoop ==
    (now' > now /\ incremental' /\ ~has_updated_at) => pc' = "loop"

\* C23: an incremental load on a file without the updated_at column is never
\* aborted for that: whichever loader runs, it reaches its batch loop, applies
\* no filter, and when it ends every row of the file was loaded.
C23_MissingColumnNeverAborts == [](C23_AllRowsLoaded) /\ [][C23_EntersLoop]_vars

\* C23 for load_parquet_to_postgres and load_csv_to_postgres alone
C23_WarnAndLoadAll ==
    [](C23_AllRowsLoaded) /\ [][cfg.fn # PI => C23_EntersLoop]_vars

----------------------------------------------------------------------------
(* Schema inference *)

\* rows infer_schema samples (sample_size, 1000 in the code, scaled to the
\* column lengths)
SampleSize == 3
\* most cells in a column handed to infer_schema
SchemaLen == 4

\* text_columns when the caller passes none
DEFAULT_TEXT_COLUMNS ==
    {"description", "title", "type", "name", "email", "subject", "custom_field_options"}

\* the column names tried: the text columns and one that is none of them
ColumnNames == DEFAULT_TEXT_COLUMNS \cup {"active"}

\* A cell is null (None, NaN), a Python bool or a string; v is str(value).
NullCell == [t |-> "null", v |-> "nan"]
BoolCell(b) == [t |-> "bool", v |-> IF b THEN "True" ELSE "False"]
StrCell(x) == [t |-> "str", v |-> x]

Cells ==
    {NullCell, BoolCell(TRUE)}
        \cup {StrCell(x) : x \in {"true", "false", "TRUE", "1", "0", "2"}}

\* the columns handed to infer_schema: a name and the cells, in row order
SchemaColumns == [name : ColumnNames, cells : SeqsUpTo(Cells, SchemaLen)]

\* str(v).lower()
str_lower(cell) ==
    IF cell.v \in {"True", "TRUE", "true"} THEN "true"
    ELSE IF cell.v \in {"False", "FALSE", "false"} THEN "false"
    ELSE cell.v

\* the strings a boolean column may hold
BooleanLike == {"true", "false", "1", "0", "1.0", "0.0"}

\* df.head(sample_size) when the DataFrame is longer than sample_size
df_sample(cells) ==
    IF Len(cells) > SampleSize THEN SubSeq(cells, 1, SampleSize) ELSE cells

\* df_sample[col].dropna().unique()
unique_vals(cells) == {c \in SeqToSet(df_sample(cells)) : c.t # "null"}

\* a test that forgets the text columns
DetectedIgnoringTextColumns(name, cells) ==
    /\ unique_vals(cells) # {}
    /\ Cardinality(unique_vals(cells)) <= 2
    /\ \A c \in unique_vals(cells) : str_lower(c) \in BooleanLike

\* the test that puts a column into boolean_columns
Detected(name, cells) ==
    /\ name \notin DEFAULT_TEXT_COLUMNS
    /\ unique_vals(cells) # {}
    /\ Cardinality(unique_vals(cells)) <= 2
    /\ \A c \in unique_vals(cells) : str_lower(c) \in BooleanLike

\* astype(str) of one cell
astype_str(cell) == StrCell(cell.v)

\* NaN of pd.to_numeric(.., errors='coerce')
NaN == None

\* pd.to_numeric(.., errors='coerce') of one cell: a bool is 1 or 0, a string is
\* its number when it spells one, anything else is NaN
to_numeric(cell) ==
    IF cell.t = "null" THEN NaN
    ELSE IF cell.t = "bool" THEN (IF cell.v = "True" THEN 1 ELSE 0)
    ELSE IF cell.v = "1" THEN 1
    ELSE IF cell.v = "0" THEN 0
    ELSE IF cell.v = "2" THEN 2
    ELSE NaN

\* numeric_col.astype('boolean') of one number; it raises TypeError when a
\* number of the column is neither 0, 1 nor NaN
astype_boolean(n) == IF n = NaN THEN NullCell ELSE BoolCell(n = 1)

\* .replace({'true': True, ..., 'false': False, ...}) of one cell
replace_literals(cell) ==
    IF cell.v \in {"true", "True", "TRUE", "1"} THEN BoolCell(TRUE)
    ELSE IF cell.v \in {"false", "False", "FALSE", "0"} THEN BoolCell(FALSE)
    ELSE cell

\* infer_schema of a DataFrame, for one of its columns: the cells of the column
\* in df_processed and the part of boolean_columns that is about it
infer_schema(col) ==
    LET n == Len(col.cells)
        detected == Detected(col.name, col.cells)
        numbers == [i \in 1..n |-> to_numeric(col.cells[i])]
        replaced == [i \in 1..n |-> replace_literals(col.cells[i])]
    IN  IF col.name \in DEFAULT_TEXT_COLUMNS
        THEN [cells |-> [i \in 1..n |-> astype_str(col.cells[i])],
              boolean_columns |-> IF detected THEN {col.name} ELSE {}]
        ELSE IF ~detected
        THEN [cells |-> col.cells, boolean_columns |-> {}]
        ELSE IF \A i \in 1..n : numbers[i] \in {0, 1, NaN}
        THEN [cells |-> [i \in 1..n |-> astype_boolean(numbers[i])],
              boolean_columns |-> {col.name}]
        ELSE IF \A i \in 1..n : replaced[i].t \in {"bool", "null"}
        THEN [cells |-> replaced, boolean_columns |-> {col.name}]
        ELSE [cells |-> col.cells, boolean_columns |-> {}]

SchemaInit ==
    /\ LoadIdle
    /\ FetchIdle
    /\ TransformIdle /\ EvolveIdle /\ DagIdle
    /\ schema_in \in {<<c>> : c \in SchemaColumns}
    /\ schema_out = <<>>

\* one call of infer_schema
InferSchema ==
    /\ schema_out = <<>>
    /\ schema_out' = <<infer_schema(schema_in[1])>>
    /\ UNCHANGED <<loadVars, fetchVars, transformVars, evolveVars, dagVars, schema_in>>

SchemaNext == InferSchema

SpecSchema == SchemaInit /\ [][SchemaNext]_vars

----------------------------------------------------------------------------
(* Claims about schema inference, checked under SpecSchema *)

Inferred == schema_out # <<>>

\* the strings of the non-null cells infer_schema sampled
SampledStrings == {c.v : c \in {x \in unique_vals(schema_in[1].cells) : x.t = "str"}}

\* C24: a column that is no text column and whose sampled non-null values are
\* exactly the strings "true", "false" and "1" is in the boolean columns
\* infer_schema returns.
C24_ThreeLiteralsAreBoolean ==
    (/\ Inferred
     /\ schema_in[1].name \notin DEFAULT_TEXT_COLUMNS
     /\ \A c \in unique_vals(schema_in[1].cells) : c.t = "str"
     /\ SampledStrings = {"true", "false", "1"}) =>
        schema_in[1].name \in schema_out[1].boolean_columns

\* C25: a column whose name is one of the text columns is not in the boolean
\* columns infer_schema returns, and every cell of it comes back as the string
\* of its value, whatever the values are.
C25_TextColumnsStayText ==
    (Inferred /\ schema_in[1].name \in DEFAULT_TEXT_COLUMNS) =>
        /\ schema_out[1].boolean_columns = {}
        /\ Len(schema_out[1].cells) = Len(schema_in[1].cells)
        /\ \A i \in 1..Len(schema_in[1].cells) :
              schema_out[1].cells[i] = StrCell(schema_in[1].cells[i].v)

\* a column named subject holding "1", "0", "1" came back as text
C25_Witness ==
    /\ Inferred
    /\ schema_in[1].name = "subject"
    /\ schema_in[1].cells = <<StrCell("1"), StrCell("0"), StrCell("1")>>
    /\ schema_out[1].cells = schema_in[1].cells
    /\ schema_out[1].boolean_columns = {}

\* the boolean a literal stands for
LiteralValue(cell) ==
    IF str_lower(cell) \in {"true", "1", "1.0"} THEN BoolCell(TRUE)
    ELSE IF str_lower(cell) \in {"false", "0", "0.0"} THEN BoolCell(FALSE)
    ELSE NullCell

\* C26: in a column infer_schema returns as boolean, a null cell is null in the
\* result, and a cell that is not null is true or false in the result, as its
\* literal says ("true", "1", "1.0": true; "false", "0", "0.0": false; in any
\* case of the letters).
C26_TriStateCoercion ==
    (Inferred /\ schema_in[1].name \in schema_out[1].boolean_columns) =>
        \A i \in 1..Len(schema_in[1].cells) :
            /\ schema_in[1].cells[i].t = "null" => schema_out[1].cells[i] = NullCell
            /\ schema_in[1].cells[i].t # "null" =>
                  /\ schema_out[1].cells[i].t = "bool"
                  /\ schema_out[1].cells[i] = LiteralValue(schema_in[1].cells[i])

\* the part of C26 about null cells alone
C26_NullStaysNull ==
    (Inferred /\ schema_in[1].name \in schema_out[1].boolean_columns) =>
        \A i \in 1..Len(schema_in[1].cells) :
            schema_in[1].cells[i].t = "null" => schema_out[1].cells[i] = NullCell

----------------------------------------------------------------------------
(* The schema step of an incremental load on a table that exists *)

\* most columns in df_sample
MaxColumns == 2

\* column names of df_sample: two of them differ in case only
DfNames == {"id", "note", "Note", "tag"}

\* col.lower()
lower(name) == IF name = "Note" THEN "note" ELSE name

\* the pandas dtypes tried
Dtypes == {"int64", "object"}

\* the PostgreSQL type of a pandas dtype
pg_type(dtype) ==
    IF dtype = "int64" THEN "BIGINT"
    ELSE IF dtype = "bool" THEN "BOOLEAN"
    ELSE IF dtype = "float64" THEN "DOUBLE PRECISION"
    ELSE IF dtype = "datetime64" THEN "TIMESTAMP"
    ELSE "TEXT"

\* df.columns with their dtypes: one column at least, no name twice
DfColumnLists ==
    {c \in SeqsUpTo([name : DfNames, dtype : Dtypes], MaxColumns) :
        /\ c # <<>>
        /\ \A i, j \in 1..Len(c) : c[i].name = c[j].name => i = j}

\* The columns a table may have: PostgreSQL holds the names in lower case, one
\* column per name.
TableColumnSets ==
    {cols \in SUBSET [name : {"id", "note", "tag"}, pg_type : {"BIGINT", "TEXT"}] :
        /\ cols # {}
        /\ \A a, b \in cols : a.name = b.name => a = b}

ColumnNamesOf(cols) == {c.name : c \in cols}

\* The loop of ALTER TABLE .. ADD COLUMN over missing_columns: a column whose
\* lower-case name is in the table by now is skipped ("already exists"), one
\* whose statement the store refuses is skipped with a warning.
RECURSIVE AddColumns(_, _, _)
AddColumns(cols, missing, failing) ==
    IF missing = <<>> THEN cols
    ELSE LET col == Head(missing)
             next == IF lower(col.name) \in ColumnNamesOf(cols) \/ col.name \in failing
                     THEN cols
                     ELSE cols \cup {[name |-> lower(col.name),
                                      pg_type |-> pg_type(col.dtype)]}
         IN  AddColumns(next, Tail(missing), failing)

\* add_missing_columns(conn, df, table_name)
add_missing_columns(cols, dfc, failing) ==
    LET missing == SelectSeq(dfc, LAMBDA c : lower(c.name) \notin ColumnNamesOf(cols))
    IN  AddColumns(cols, missing, failing)

\* create_table_from_df(.., "replace") on a table that exists: DROP TABLE,
\* commit, CREATE TABLE with the columns of df; the CREATE fails when two names
\* of df are one name in lower case, and the table stays dropped.
create_table_from_df(dfc) ==
    IF \E i, j \in 1..Len(dfc) : i # j /\ lower(dfc[i].name) = lower(dfc[j].name)
    THEN {}
    ELSE {[name |-> lower(dfc[i].name), pg_type |-> pg_type(dfc[i].dtype)] :
            i \in 1..Len(dfc)}

\* The columns of an existing table after the schema step of an incremental
\* load: load_parquet_incremental and load_parquet_to_postgres call
\* add_missing_columns; load_csv_to_postgres calls create_table_from_df when
\* if_exists is "replace" and nothing otherwise.
ColumnsAfterSchemaStep(cols, dfc, c, failing) ==
    IF c.fn = CSV
    THEN (IF c.if_exists = "replace" THEN create_table_from_df(dfc) ELSE cols)
    ELSE add_missing_columns(cols, dfc, failing)

\* tables that exist before the load
EvolveTables == {T \in SUBSET [id : Ids, updated_at : {IsoStamp(1)}, _loaded_at : {0}] : T # {}}

EvolveInit ==
    /\ cfg \in CallSites
    /\ plan = <<>>
    /\ has_updated_at = TRUE
    /\ \E T \in EvolveTables : LoadLocals(T, 1)
    /\ FetchIdle
    /\ TransformIdle /\ SchemaIdle /\ DagIdle
    /\ table_columns \in TableColumnSets
    /\ df_columns \in DfColumnLists
    /\ evolved = <<>>

\* the schema step of an incremental load: the columns and the rows after it
SchemaStep ==
    /\ evolved = <<>>
    /\ \E failing \in SUBSET {df_columns[i].name : i \in 1..Len(df_columns)} :
          /\ table_columns' = ColumnsAfterSchemaStep(table_columns, df_columns, cfg,
                                                     failing)
          /\ evolved' = <<[before |-> table_columns, failing |-> failing]>>
    /\ t0' = table
    /\ table' = AfterSchemaStep(table, tableExists, cfg, TRUE)
    /\ tableExists' = (table_columns' # {})
    /\ UNCHANGED <<cfg, has_updated_at, loadWm, now, pc, file, incremental, start_idx,
                   last_load_ts, max_updated_at, total_rows, current_timestamp,
                   wm0, crashed, plan, df_columns>>
    /\ UNCHANGED <<fetchVars, transformVars, schemaVars, dagVars>>

EvolveNext == SchemaStep

SpecEvolve == EvolveInit /\ [][EvolveNext]_vars

\* the lower-case names of the incoming columns
IncomingNames == {lower(df_columns[i].name) : i \in 1..Len(df_columns)}

\* C27: after the schema step of an incremental load on an existing table, when
\* the store refused no ALTER, the column names of the table are the old names
\* and the lower-case names of the incoming columns, every old column is there
\* with its name and type, and the rows are the rows the table had.
C27_AdditiveOnly ==
    (evolved # <<>> /\ evolved[1].failing = {}) =>
        /\ ColumnNamesOf(table_columns)
              = ColumnNamesOf(evolved[1].before) \cup IncomingNames
        /\ evolved[1].before \subseteq table_columns
        /\ table = t0

\* C27 for load_parquet_incremental and load_parquet_to_postgres alone
C27_ParquetLoadersAdditive == cfg.fn # CSV => C27_AdditiveOnly

----------------------------------------------------------------------------
(* The orchestrator: the flow zendesk_etl_pipeline *)

Resources == {"ticket_fields", "organizations", "users", "tickets"}
Phases == {"extract", "transform", "load"}

Task(phase, resource) == [phase |-> phase, resource |-> resource]
Tasks == [phase : Phases, resource : Resources]

\* a flow body that makes its load calls before its extract and transform calls
ProgramLoadsFirst ==
    <<Task("load", "ticket_fields"), Task("load", "organizations"),
      Task("load", "users"), Task("load", "tickets"),
      Task("extract", "ticket_fields"), Task("extract", "organizations"),
      Task("extract", "users"), Task("extract", "tickets"),
      Task("transform", "ticket_fields"), Task("transform", "organizations"),
      Task("transform", "users"), Task("transform", "tickets")>>

\* The task calls of the flow body, in the order the body makes them.  A task
\* called in a flow runs to its end before the call returns.
Program ==
    <<Task("extract", "ticket_fields"), Task("extract", "organizations"),
      Task("extract", "users"), Task("extract", "tickets"),
      Task("transform", "ticket_fields"), Task("transform", "organizations"),
      Task("transform", "users"), Task("transform", "tickets"),
      Task("load", "ticket_fields"), Task("load", "organizations"),
      Task("load", "users"), Task("load", "tickets")>>

\* run_extract, run_transform, run_load, as the command line sets them
FlagSets == [extract : BOOLEAN, transform : BOOLEAN, load : BOOLEAN]

\* whether the flow runs the phase
Runs(flags, phase) ==
    IF phase = "extract" THEN flags.extract
    ELSE IF phase = "transform" THEN flags.transform
    ELSE flags.load

\* a flow that goes on with its next call after a task has failed
ContinuesAfterFailure(pos) == [flow_state |-> "running", next_task |-> pos + 1]

\* raise Exception(..) in a task called by the flow body: the exception leaves
\* the flow function, the calls after it are not made
AfterFailure(pos) == [flow_state |-> "failed", next_task |-> pos]

DagInit ==
    /\ LoadIdle
    /\ FetchIdle
    /\ TransformIdle /\ SchemaIdle /\ EvolveIdle
    /\ DagIdle

\* python dag.py with some flags: the flow run begins
StartFlow ==
    /\ flow_state = "idle"
    /\ run_flags' \in {<<f>> : f \in FlagSets}
    /\ task_state' = [t \in Tasks |-> "none"]
    /\ flow_state' = "running"
    /\ next_task' = 1
    /\ UNCHANGED <<running, started>>
    /\ UNCHANGED <<loadVars, fetchVars, transformVars, schemaVars, evolveVars>>

\* the flow body calls the next task of a phase that runs: subprocess.run starts
\* the script of the task
CallTask ==
    /\ flow_state = "running"
    /\ running = <<>>
    /\ next_task <= Len(Program)
    /\ Runs(run_flags[1], Program[next_task].phase)
    /\ running' = <<Program[next_task]>>
    /\ started' = Append(started, Program[next_task])
    /\ task_state' = [task_state EXCEPT ![Program[next_task]] = "running"]
    /\ UNCHANGED <<run_flags, flow_state, next_task>>
    /\ UNCHANGED <<loadVars, fetchVars, transformVars, schemaVars, evolveVars>>

\* a phase that does not run: skip_placeholder() stands for the task of an
\* extract or transform phase, and no call at all is made for a load phase
SkipTask ==
    /\ flow_state = "running"
    /\ running = <<>>
    /\ next_task <= Len(Program)
    /\ ~Runs(run_flags[1], Program[next_task].phase)
    /\ task_state' = [task_state EXCEPT ![Program[next_task]] = "skipped"]
    /\ next_task' = next_task + 1
    /\ UNCHANGED <<run_flags, flow_state, running, started>>
    /\ UNCHANGED <<loadVars, fetchVars, transformVars, schemaVars, evolveVars>>

\* the script exits with 0: the task returns True
TaskSucceeds ==
    /\ running # <<>>
    /\ task_state' = [task_state EXCEPT ![running[1]] = "completed"]
    /\ running' = <<>>
    /\ next_task' = next_task + 1
    /\ UNCHANGED <<run_flags, flow_state, started>>
    /\ UNCHANGED <<loadVars, fetchVars, transformVars, schemaVars, evolveVars>>

\* the script exits with another code: the task raises
TaskFails ==
    /\ running # <<>>
    /\ task_state' = [task_state EXCEPT ![running[1]] = "failed"]
    /\ running' = <<>>
    /\ flow_state' = AfterFailure(next_task).flow_state
    /\ next_task' = AfterFailure(next_task).next_task
    /\ UNCHANGED <<run_flags, started>>
    /\ UNCHANGED <<loadVars, fetchVars, transformVars, schemaVars, evolveVars>>

\* the flow body returns its dictionary of results
FinishFlow ==
    /\ flow_state = "running"
    /\ running = <<>>
    /\ next_task > Len(Program)
    /\ flow_state' = "completed"
    /\ UNCHANGED <<run_flags, task_state, next_task, running, started>>
    /\ UNCHANGED <<loadVars, fetchVars, transformVars, schemaVars, evolveVars>>

DagNext ==
    \/ StartFlow
    \/ CallTask
    \/ SkipTask
    \/ TaskSucceeds
    \/ TaskFails
    \/ FinishFlow

SpecDag == DagInit /\ [][DagNext]_vars

----------------------------------------------------------------------------
(* Claims about the orchestrator, checked under SpecDag *)

Started(t) == t \in SeqToSet(started)

\* the tickets transform starts in this step
C28_TicketsTransformStarts ==
    ~Started(Task("transform", "tickets")) /\ Started(Task("transform", "tickets"))'

C28_StartsAfterFields ==
    C28_TicketsTransformStarts =>
        /\ run_flags[1].transform
        /\ task_state[Task("transform", "ticket_fields")] = "completed"

C28_NotAfterFailedFields ==
    (flow_state # "idle" /\ task_state[Task("transform", "ticket_fields")] = "failed") =>
        ~Started(Task("transform", "tickets"))

\* C28: in a flow run, the tickets transform starts only when the ticket_fields
\* transform has completed; once the ticket_fields transform has failed, the
\* tickets transform has not started and never does.
C28_TicketsAfterTicketFields ==
    [](C28_NotAfterFailedFields) /\ [][C28_StartsAfterFields]_vars

\* the tickets transform has started in a run of all three phases
C28_Witness ==
    /\ flow_state = "running"
    /\ run_flags[1] = [extract |-> TRUE, transform |-> TRUE, load |-> TRUE]
    /\ running = <<Task("transform", "tickets")>>
    /\ task_state[Task("transform", "ticket_fields")] = "completed"

\* the flow run is over
FlowOver == flow_state \in {"completed", "failed"}

\* a task of the resource failed
ResourceFailed(r) == \E t \in Tasks : t.resource = r /\ task_state[t] = "failed"

\* resource r2 needs nothing of resource r
Independent(r, r2) == r2 # r /\ ~(r = "ticket_fields" /\ r2 = "tickets")

\* after a task of a resource has failed, no later phase of it has started
C29_DownstreamNotStarted ==
    flow_state # "idle" =>
        \A i, j \in 1..Len(Program) :
            (/\ Program[i].resource = Program[j].resource
             /\ i < j
             /\ task_state[Program[i]] = "failed") => ~Started(Program[j])

C29_IndependentProceed ==
    FlowOver =>
        \A r, r2 \in Resources :
            (ResourceFailed(r) /\ Independent(r, r2)) =>
                \A t \in Tasks :
                    (t.resource = r2 /\ Runs(run_flags[1], t.phase)) =>
                        task_state[t] = "completed"

\* C29: when a task of a resource has failed, no later phase of that resource
\* is started, and when the flow run is over every phase the run was to make of
\* every resource independent of it has completed.
C29_FailureIsPerResource ==
    C29_DownstreamNotStarted /\ C29_IndependentProceed

----------------------------------------------------------------------------
\* The two watermarks of one resource.  The extraction scripts and the load
\* scripts are separate processes with nothing that orders or locks them, so
\* their steps interleave freely.  The load side replays the two-file plan with
\* one old row and the new row after it; the extraction side has run before, its timestamp file holds
\* some value, and it runs once more.

WatermarksInit ==
    /\ cfg \in {IncrementalLoad, ParquetLoad}
    /\ plan \in {p \in ScenarioPlans : p.rows = 1 /\ p.at = 2}
    /\ LoadStart({}, 0)
    /\ fetcher \in {EIE, EZD}
    /\ syncWm \in 1..MaxTs
    /\ xruns = MaxExtractions - 1
    /\ outfile = <<>>
    /\ fpc = "idle"
    /\ url = NoUrl
    /\ all_records = <<>>
    /\ final_end_time = None
    /\ stop_time = 0
    /\ slept = 0
    /\ lastAnswer = "none"
    /\ retries = 0
    /\ requests = 0
    /\ pages = 0
    /\ limited = 0
    /\ log = <<>>
    /\ lastPage = <<>>
    /\ SideIdle

WatermarksNext ==
    \/ ScenarioRun
    \/ SkipBatch
    \/ InsertBatch
    \/ BatchFail
    \/ FinishRun
    \/ Return
    \/ StartExtraction
    \/ RateLimited
    \/ HttpError
    \/ ReceivePage
    \/ SaveExtraction

SpecWatermarks == WatermarksInit /\ [][WatermarksNext]_vars

\* a step of a load run leaves the extraction's state, its timestamp file
\* included, as it was, and a load run that starts takes last_load_ts from the
\* load watermark
C30_LoadStep ==
    (loadVars' # loadVars) =>
        /\ UNCHANGED fetchVars
        /\ (pc = "idle" /\ pc' = "loop") => last_load_ts' = (IF incremental' THEN loadWm ELSE 0)

\* a step of an extraction leaves the load's state, its watermark file included,
\* as it was, and an extraction that starts asks for the records after the sync
\* watermark
C30_ExtractionStep ==
    (fetchVars' # fetchVars) =>
        /\ UNCHANGED loadVars
        /\ fpc' = "loop" /\ fpc # "loop" => url' = <<syncWm>>

\* the load watermark changes only at the end of a run that went through, to the
\* one value that run saves
C30_LoadWatermarkWritten ==
    (loadWm' # loadWm) =>
        /\ pc = "loop" /\ pc' = "done"
        /\ loadWm' \in {max_updated_at, current_timestamp}

\* the sync watermark changes only when an extraction that returned saves, to the
\* one value that extraction saves
C30_SyncWatermarkWritten ==
    (syncWm' # syncWm) =>
        /\ fpc = "returned" /\ fpc' = "saved"
        /\ syncWm' \in {stop_time, final_end_time}

\* a watermark that is stored stays stored
C30_NothingDeletes ==
    /\ loadWm # 0 => loadWm' # 0
    /\ syncWm # 0 => syncWm' # 0

\* C30: the sync watermark and the load watermark are independent: no step of an
\* extraction reads or writes the load watermark, no step of a load reads or
\* writes the sync watermark, each is one stored value that only a run that
\* went through overwrites, and nothing deletes either.
C30_WatermarksIndependent ==
    [][/\ C30_LoadStep
       /\ C30_ExtractionStep
       /\ C30_LoadWatermarkWritten
       /\ C30_SyncWatermarkWritten
       /\ C30_NothingDeletes]_vars

\* the second load run and the second extraction are both under way, each
\* started from its own watermark, and the two watermarks differ
C30_Witness ==
    /\ loadWm # 0 /\ syncWm # 0 /\ loadWm # syncWm
    /\ plan.run = 2 /\ pc = "loop" /\ incremental /\ last_load_ts = loadWm
    /\ xruns = MaxExtractions /\ fpc = "loop" /\ url = <<syncWm>>

----------------------------------------------------------------------------
(* Full load with replacement *)

\* the run is a full load that asks for replacement
FullReplace(c, inc) == ~inc /\ c.if_exists = "replace"

\* the rows a full load makes of its input file: for each key the row made of
\* the last row of the file with that key
RowsOfInput == {RowOf(LastWithKeyOf(i)) : i \in 1..Len(file)}

\* a full load with replacement that ended without a failure left exactly the
\* rows of the input in the table
C31_ExactlyTheInput ==
    (pc = "done" /\ FullReplace(cfg, incremental)) => table = RowsOfInput

\* a full load with replacement enters its batch loop with the table emptied
C31_EmptiedBeforeInsert ==
    (pc # "loop" /\ pc' = "loop" /\ FullReplace(cfg, incremental')) => table' = {}

\* C31: in full mode with replacement every row the table held before the run
\* is removed before the first row is inserted, and after a load that ended
\* without a failure the table holds exactly the rows of the input, one per key,
\* and no row from before the run.
C31_FullLoadReplaces ==
    [](C31_ExactlyTheInput) /\ [][C31_EmptiedBeforeInsert]_vars

\* a full load with replacement has ended on a table that held a row whose key
\* is not in the input
C31_Witness ==
    /\ pc = "done"
    /\ FullReplace(cfg, incremental)
    /\ file # <<>>
    /\ \E r \in t0 : \A i \in 1..Len(file) : KeyOf(r, cfg.pk) # KeyOf(RowOf(i), cfg.pk)

----------------------------------------------------------------------------
(* Order of the phases of one resource *)

\* the task of the phase is over for this flow run: it has completed when the
\* run makes the phase, and it was passed over when the run does not
PhaseDone(phase, r) ==
    task_state[Task(phase, r)] =
        (IF Runs(run_flags[1], phase) THEN "completed" ELSE "skipped")

\* the task that the step starts, if it starts one
C32_StartsInOrder ==
    \A t \in Tasks :
        (started' = Append(started, t)) =>
            /\ t.phase = "transform" => PhaseDone("extract", t.resource)
            /\ t.phase = "load" =>
                   PhaseDone("extract", t.resource) /\ PhaseDone("transform", t.resource)

\* while a load or a transform of a resource runs, the extraction of the
\* resource is neither running nor failed
C32_NotDuringOrAfterFailure ==
    flow_state # "idle" =>
        \A t \in Tasks :
            (task_state[t] = "running" /\ t.phase # "extract") =>
                task_state[Task("extract", t.resource)] \notin {"running", "failed", "none"}

----------------------------------------------------------------------------
(* The transform scripts: etl/<resource>/transform.py *)

\* most files in the input directory of a transform script
MaxFiles == 2
\* most records in the extraction file a transform script reads
ExportLen == 2

\* the resources whose extraction is an incremental export
IncrementalResources == {"tickets", "users", "organizations"}

\* A file name <stem>_<digits>.<ext> or <stem>_until_<digits>.<ext>; digits is
\* <<>> for a name that has no run of digits in front of its extension.
FileNames ==
    [stem : IncrementalResources, until : BOOLEAN,
     digits : {<<>>} \cup {<<n>> : n \in 1..MaxTs}, ext : {"json", "JSON"}]

\* the directories with at most n files
RECURSIVE DirsUpTo(_)
DirsUpTo(n) ==
    IF n = 0 THEN {{}}
    ELSE LET smaller == DirsUpTo(n - 1)
         IN  smaller \cup {d \cup {f} : d \in smaller, f \in FileNames}

\* the file written by an earlier extraction of resource r, if there is one:
\* <resource>_until_<api_end_time>.json or <resource>_<wall clock>.json
ExtractionDirs(r) ==
    {{}} \cup {{f} : f \in {g \in FileNames : g.stem = r /\ g.digits # <<>> /\ g.ext = "json"}}

\* file_pattern "<stem>_*.json" (until_only FALSE) or "<stem>_until_*.json"
Pattern(stem, until_only) == [stem |-> stem, until_only |-> until_only, ext |-> "json"]

\* glob.glob(f"{INPUT_DIR}/{file_pattern}"): the * stands for any characters,
\* "until_" among them, and the letters of the extension match by case
glob(dir, pattern) ==
    {f \in dir : /\ f.stem = pattern.stem
                 /\ pattern.until_only => f.until
                 /\ f.ext = pattern.ext}

\* re.search(r'(\d+)\.(json|csv|txt|parquet)$', fname, re.IGNORECASE)
re_search(f) ==
    f.digits # <<>> /\ (IF f.ext = "JSON" THEN "json" ELSE f.ext) \in {"json", "csv", "txt", "parquet"}

\* a lookup that takes the file with the smallest timestamp
load_earliest_file_from_dir(dir, pattern) ==
    LET timestamped_files == {f \in glob(dir, pattern) : re_search(f)}
    IN  {f \in timestamped_files :
            \A g \in timestamped_files : f.digits[1] <= g.digits[1]}

\* load_latest_file_from_dir(INPUT_DIR, file_pattern): the files it may return,
\* none when it returns None.  max(.., key=timestamp) takes the first of the
\* files with the largest timestamp in the order glob lists them, which is the
\* order of the directory entries.
load_latest_file_from_dir(dir, pattern) ==
    LET timestamped_files == {f \in glob(dir, pattern) : re_search(f)}
    IN  {f \in timestamped_files :
            \A g \in timestamped_files : g.digits[1] <= f.digits[1]}

\* the two lookups of a transform script: file_name = load_latest_file_from_dir(
\* input_dir, "<r>_*.json"); if not file_name: ... "<r>_until_*.json"
InputFiles(dir, r) ==
    IF load_latest_file_from_dir(dir, Pattern(r, FALSE)) # {}
    THEN load_latest_file_from_dir(dir, Pattern(r, FALSE))
    ELSE load_latest_file_from_dir(dir, Pattern(r, TRUE))

\* pd.DataFrame(flattened_data): flatten_<resource> gives every record its id
\* column and its updated_at column
FlattenedFrames == Frames({"id", "updated_at", "payload"}, ExportLen)

\* a transform script of resource r starts on input directory dir
ScriptStart(r, dir) ==
    /\ LoadIdle /\ FetchIdle /\ SchemaIdle /\ EvolveIdle /\ DagIdle
    /\ df = <<>>
    /\ deduped = <<>>
    /\ transform_of = <<r>>
    /\ input_dir = dir
    /\ file_name = <<>>
    /\ tpc = "start"
    /\ exported = <<>>

\* the script finds its input file
FindInput ==
    /\ tpc = "start"
    /\ InputFiles(input_dir, transform_of[1]) # {}
    /\ file_name' \in {<<f>> : f \in InputFiles(input_dir, transform_of[1])}
    /\ tpc' = "found"
    /\ UNCHANGED <<df, deduped, transform_of, input_dir, exported>>
    /\ UNCHANGED <<loadVars, fetchVars, schemaVars, evolveVars, dagVars>>

\* if not file_name: print(..); sys.exit(1)
NoInput ==
    /\ tpc = "start"
    /\ InputFiles(input_dir, transform_of[1]) = {}
    /\ tpc' = "exit1"
    /\ UNCHANGED <<df, deduped, transform_of, input_dir, file_name, exported>>
    /\ UNCHANGED <<loadVars, fetchVars, schemaVars, evolveVars, dagVars>>

\* The rest of main: the records of the file are flattened and written.  The
\* scripts of users and organizations hand the DataFrame to
\* deduplicate_dataframe(df, '<resource>_id', 'updated_at') and export what it
\* returns; the script of tickets writes pd.DataFrame(flattened_data) as it is.
WriteOutput ==
    /\ tpc = "found"
    /\ \E records \in FlattenedFrames :
          LET d == [columns |-> {"id", "updated_at", "payload"}, records |-> records,
                    updated_at_column |-> <<"updated_at">>]
          IN  IF transform_of[1] = "tickets"
              THEN /\ df' = <<d>>
                   /\ deduped' = <<>>
                   /\ exported' = <<records>>
              ELSE /\ df' = <<AfterCall(d)>>
                   /\ deduped' = <<deduplicate_dataframe(d)>>
                   /\ exported' = <<deduplicate_dataframe(d).df>>
    /\ tpc' = "done"
    /\ UNCHANGED <<transform_of, input_dir, file_name>>
    /\ UNCHANGED <<loadVars, fetchVars, schemaVars, evolveVars, dagVars>>

\* a transform script run after the extraction of its resource
TransformInit ==
    \E r \in IncrementalResources : \E dir \in ExtractionDirs(r) : ScriptStart(r, dir)

TransformNext ==
    \/ FindInput
    \/ NoInput
    \/ WriteOutput

SpecTransform == TransformInit /\ [][TransformNext]_vars

\* the lookups of a transform script in any input directory
LatestInit ==
    \E r \in IncrementalResources : \E dir \in DirsUpTo(MaxFiles) : ScriptStart(r, dir)

LatestNext ==
    \/ FindInput
    \/ NoInput

SpecLatest == LatestInit /\ [][LatestNext]_vars

----------------------------------------------------------------------------
(* Claims about the transform scripts *)

\* the file the script wrote has two rows with one primary key
DuplicateKeyExported ==
    \E i, j \in 1..Len(exported[1]) : i # j /\ exported[1][i].id = exported[1][j].id

\* C33: the file a transform script of an incrementally exported resource has
\* written for the load phase has at most one row per primary key, whatever the
\* export emitted.
C33_OneRowPerKey ==
    tpc = "done" => ~DuplicateKeyExported

\* the same for the scripts that call deduplicate_dataframe
C33_UsersAndOrganizations ==
    (tpc = "done" /\ transform_of[1] # "tickets") => ~DuplicateKeyExported

----------------------------------------------------------------------------
(* The classification infer_schema returns, checked under SpecSchema *)

\* the non-null cells among the first sample_size rows of the column
SampledNonNull ==
    {c \in SeqToSet(df_sample(schema_in[1].cells)) : c.t # "null"}

\* the sample holds a value, every value of it is a boolean literal, and it has
\* at most two distinct values
SampleLooksBoolean ==
    /\ SampledNonNull # {}
    /\ \A c \in SampledNonNull : str_lower(c) \in BooleanLike
    /\ Cardinality(SampledNonNull) <= 2

\* C34: a column that is no text column is in the boolean columns infer_schema
\* returns exactly when every non-null value among its first sample_size rows,
\* lowercased, is a boolean literal and the sample has at most two distinct
\* non-null values; the rows after the sample have no part in it.
C34_ClassifiedBySample ==
    (Inferred /\ schema_in[1].name \notin DEFAULT_TEXT_COLUMNS) =>
        (schema_in[1].name \in schema_out[1].boolean_columns <=> SampleLooksBoolean)

\* the same for a column that is no longer than the sample
C34_ShortColumnClassifiedBySample ==
    (/\ Inferred
     /\ schema_in[1].name \notin DEFAULT_TEXT_COLUMNS
     /\ Len(schema_in[1].cells) <= SampleSize) =>
        (schema_in[1].name \in schema_out[1].boolean_columns <=> SampleLooksBoolean)

----------------------------------------------------------------------------
(* The end of an extraction run, statement by statement.  SaveExtraction takes
   the file and the timestamp in one step; here the script writes the file,
   which may fail, and saves the sync timestamp after it. *)

\* the name the script gives its output file
OutputName ==
    IF fetcher = EZD THEN <<"until", stop_time>>
    ELSE IF Truthy(final_end_time) THEN <<"until", final_end_time>>
    ELSE <<"at", now>>

\* if all_records: with open(filename, 'w') as f: json.dump(all_records, f, ..)
WriteFile ==
    /\ fpc = "returned"
    /\ outfile' = IF all_records = <<>> THEN <<>>
                  ELSE <<[name |-> OutputName, records |-> all_records]>>
    /\ fpc' = "written"
    /\ UNCHANGED <<fetcher, syncWm, xruns, url, all_records, final_end_time, stop_time,
                   slept, lastAnswer, retries, requests, pages, limited, log, lastPage>>
    /\ UNCHANGED <<loadVars, sideVars>>

\* open or json.dump raises (no space, no permission): the exception leaves the
\* script, and the file is missing or holds a part of the records
WriteFails ==
    /\ fpc = "returned"
    /\ all_records # <<>>
    /\ \E k \in 0..(Len(all_records) - 1) :
          outfile' \in {<<>>, <<[name |-> OutputName, records |-> SubSeq(all_records, 1, k)]>>}
    /\ fpc' = "raised"
    /\ UNCHANGED <<fetcher, syncWm, xruns, url, all_records, final_end_time, stop_time,
                   slept, lastAnswer, retries, requests, pages, limited, log, lastPage>>
    /\ UNCHANGED <<loadVars, sideVars>>

\* a script that saves the timestamp before it writes the file
SaveSyncTimeFirst ==
    /\ fpc = "returned"
    /\ syncWm' = IF fetcher = EZD THEN stop_time
                 ELSE IF Truthy(final_end_time) THEN final_end_time
                 ELSE syncWm
    /\ fpc' = "returned"
    /\ UNCHANGED <<fetcher, outfile, xruns, url, all_records, final_end_time, stop_time,
                   slept, lastAnswer, retries, requests, pages, limited, log, lastPage>>
    /\ UNCHANGED <<loadVars, sideVars>>

\* run_extraction: if timestamp_file and api_end_time: save_sync_time(api_end_time, ..)
\* main of the stop_time script: save_sync_time(TARGET_STOP_TIMESTAMP, TIMESTAMP_FILE)
SaveSyncTime ==
    /\ fpc = "written"
    /\ syncWm' = IF fetcher = EZD THEN stop_time
                 ELSE IF Truthy(final_end_time) THEN final_end_time
                 ELSE syncWm
    /\ fpc' = "saved"
    /\ UNCHANGED <<fetcher, outfile, xruns, url, all_records, final_end_time, stop_time,
                   slept, lastAnswer, retries, requests, pages, limited, log, lastPage>>
    /\ UNCHANGED <<loadVars, sideVars>>

SaveNext ==
    \/ StartExtraction
    \/ RateLimited
    \/ HttpError
    \/ ReceivePage
    \/ WriteFile
    \/ WriteFails
    \/ SaveSyncTime

SpecSave == InitFetch /\ [][SaveNext]_vars

\* the records this run fetched are in its output file
RecordsOnDisk ==
    all_records # <<>> => (outfile # <<>> /\ outfile[1].records = all_records)

\* the sync watermark is written only by a script whose fetch has returned and
\* whose file is written
C36_SavedAfterWritten ==
    (syncWm' # syncWm) => (fpc = "written" /\ RecordsOnDisk)

\* the step in which a script fails writes no watermark
C36_FailureWritesNothing ==
    (fpc' = "raised" /\ fpc # "raised") => syncWm' = syncWm

\* until the script saves, the watermark is the one the run started from: the
\* start_time of its first request
C36_PreRunValueKept ==
    (fpc \in {"loop", "returned", "written", "raised"} /\ log # <<>>) =>
        syncWm = log[1].url[1]

\* C36: the sync watermark is written only after the fetch has returned and the
\* records it fetched are in the output file; a failure during the fetch or
\* while the file is written leaves the watermark at the value the run started
\* from.
C36_WatermarkAfterFile ==
    [](C36_PreRunValueKept) /\ [][C36_SavedAfterWritten /\ C36_FailureWritesNothing]_vars

\* a run saved a new watermark after it wrote its records
C36_Witness ==
    /\ fpc = "saved"
    /\ all_records # <<>>
    /\ RecordsOnDisk
    /\ log # <<>> /\ syncWm # log[1].url[1]

\* a run failed while it wrote its records, with the watermark as it was
C36_FailedWrite ==
    /\ fpc = "raised"
    /\ all_records # <<>>
    /\ lastAnswer = "page"
    /\ syncWm = log[1].url[1]

----------------------------------------------------------------------------
(* The end_time run_extraction saves, checked under SpecFetch *)

\* the page sequence ended at a page without next_page and without the
\* end-of-stream flag
EndedWithoutCursor ==
    /\ fetcher = EIE
    /\ lastPage # <<>>
    /\ lastPage[1].next_page = NoUrl
    /\ ~lastPage[1].end_of_stream

\* run_extraction changes the sync watermark only to a non-null, non-zero
\* end_time its fetch returned
C37_OnlyTruthyEndTime ==
    (fetcher = EIE /\ syncWm' # syncWm) =>
        /\ fpc = "returned" /\ fpc' = "saved"
        /\ Truthy(final_end_time)
        /\ syncWm' = final_end_time

\* after such an end the fetch has returned end_time None, and the run that has
\* saved kept the watermark it started from and wrote the records it fetched to
\* a file named with the wall-clock time
C37_EndWithoutCursor ==
    (EndedWithoutCursor /\ fpc \in {"returned", "saved"}) =>
        /\ final_end_time = None
        /\ syncWm = log[1].url[1]
        /\ fpc = "saved" =>
              outfile = (IF all_records = <<>> THEN <<>>
                         ELSE <<[name |-> <<"at", now>>, records |-> all_records]>>)

\* the run goes on from the return of such a fetch to its successful end only
C37_ReportsSuccess ==
    (EndedWithoutCursor /\ fpc = "returned" /\ fpc' # fpc) => fpc' = "saved"

\* C37: run_extraction changes the sync watermark only when the fetch returned a
\* non-null, non-zero end_time; when the pages end at a page without next_page
\* and without the end-of-stream flag the fetch returns end_time None, the
\* records are saved to a file named with the wall-clock time, the watermark
\* keeps its value and the run ends with success.
C37_WatermarkNeedsEndTime ==
    [](C37_EndWithoutCursor) /\ [][C37_OnlyTruthyEndTime /\ C37_ReportsSuccess]_vars

\* a second run ended without a cursor: its records are in a file named with
\* the wall-clock time and the watermark of the first run stands
C37_Witness ==
    /\ EndedWithoutCursor
    /\ fpc = "saved"
    /\ all_records # <<>>
    /\ outfile[1].name[1] = "at"
    /\ syncWm # 0
    /\ syncWm = log[1].url[1]

----------------------------------------------------------------------------
(* The records a fetch returns, checked under SpecFetch.  The records of the
   n-th page received are <<n>> or none, so all_records tells which pages are
   in it, how often and in which order. *)

\* a 200 answer puts the records of its page behind the records fetched so far
C38_PageAppended ==
    (pages' = pages + 1) => all_records' = all_records \o lastPage'[1].records

\* a 429 answer, and every other step of the run, leaves the records as they are
C38_NothingElseAdds ==
    (pages' = pages /\ xruns' = xruns) => all_records' = all_records

\* the records are in the order of the pages, none of them twice, and the
\* records of the last page received are the last of them
C38_EachPageOnce ==
    /\ \A i, j \in 1..Len(all_records) : i < j => all_records[i] < all_records[j]
    /\ \A i \in 1..Len(all_records) : all_records[i] \in 1..pages
    /\ (lastPage # <<>> /\ lastPage[1].records # <<>>) =>
           (all_records # <<>> /\ all_records[Len(all_records)] = pages)

\* C38: the records a fetch returns are the record lists of the pages it
\* received, in request order and each once: a 429 answer adds nothing, a page
\* asked for again after a 429 is added once, and the records of the page on
\* which the loop stops are among them.
C38_RecordsAreThePages ==
    [](C38_EachPageOnce) /\ [][C38_PageAppended /\ C38_NothingElseAdds]_vars

\* a fetch has returned the records of two pages after it was rate limited
C38_Witness ==
    /\ fpc = "returned"
    /\ limited > 0
    /\ pages = 2
    /\ all_records = <<1, 2>>

----------------------------------------------------------------------------
(* Termination of the fetch loop.  The loop sends its request whenever it has a
   URL, and the server answers it: a page keeps arriving as long as one can. *)

SpecFetchFair == InitFetch /\ [][FetchNext]_vars /\ WF_vars(ReceivePage)

\* the page has the end-of-stream flag, or no next_page, or, for the fetch with
\* a stop_time, a next_page whose start_time exceeds stop_time
EndsTheStream(page, stop) ==
    \/ page.end_of_stream
    \/ page.next_page = NoUrl
    \/ (fetcher = EZD /\ next_start_time(page.next_page) > stop)

\* no request is answered with an error status
ServerAnswers == [](lastAnswer # "error")

\* the server sends such a page at the latest as its MaxPages-th page; the 429
\* answers of a fetch are at most MaxRateLimited
ServerEndsTheStream ==
    [](pages = MaxPages => EndsTheStream(lastPage[1], stop_time))

\* the loop iteration that has received a page that ends the stream has left
\* the loop
C39_StopPageEndsLoop ==
    (lastPage # <<>> /\ lastAnswer = "page" /\ EndsTheStream(lastPage[1], stop_time)) =>
        fpc # "loop"

\* under the premises about the server a fetch that is in its loop returns
C39_LoopReturns ==
    (ServerAnswers /\ ServerEndsTheStream) => (fpc = "loop" ~> fpc = "returned")

\* C39: if the server answers every request, stops answering 429, and after
\* finitely many pages sends a page with the end-of-stream flag or without a
\* next_page (or, with a stop_time, with a next_page whose start_time exceeds
\* stop_time), then the fetch loop eventually returns: the page that ends the
\* stream ends the loop, whatever the server would send after it.
C39_FetchTerminates ==
    [](C39_StopPageEndsLoop) /\ C39_LoopReturns

\* the same for extract_incremental_endpoint alone
C39_IncrementalEndpointTerminates ==
    /\ [](fetcher = EIE => C39_StopPageEndsLoop)
    /\ (ServerAnswers /\ ServerEndsTheStream) =>
           ((fetcher = EIE /\ fpc = "loop") ~> fpc = "returned")


\* the same for extract_zendesk_data, when the page that ends the stream has no
\* next_page or a next_page whose start_time exceeds stop_time
C39_StopTimeFetchTerminates ==
    (ServerAnswers /\ [](pages = MaxPages =>
                            \/ lastPage[1].next_page = NoUrl
                            \/ next_start_time(lastPage[1].next_page) > stop_time)) =>
        ((fetcher = EZD /\ fpc = "loop") ~> fpc = "returned")

----------------------------------------------------------------------------
(* The input file of a transform script, checked under SpecLatest *)

\* the extraction outputs of the resource in the input directory, under either
\* naming convention: <resource>_<digits>.json and <resource>_until_<digits>.json
ExtractionOutputs ==
    {f \in input_dir : f.stem = transform_of[1] /\ f.ext = "json" /\ f.digits # <<>>}

\* C35: the file a transform script chooses is an extraction output of its
\* resource whose embedded integer is the largest among the outputs of both
\* naming conventions, and the script finds no file only when the directory
\* holds no such output.
C35_LatestAcrossConventions ==
    /\ tpc = "found" =>
          /\ file_name[1] \in ExtractionOutputs
          /\ \A g \in ExtractionOutputs : g.digits[1] <= file_name[1].digits[1]
    /\ tpc = "exit1" => ExtractionOutputs = {}

\* the directory holds an output of each naming convention and the script has
\* chosen the one named "until", whose integer is the larger
C35_Witness ==
    /\ tpc = "found"
    /\ file_name[1].until
    /\ \E g \in ExtractionOutputs : ~g.until /\ g.digits[1] < file_name[1].digits[1]

====
